---- MODULE Spec2Model ----
(***************************************************************************)
(* EcoSimOcean: the tick loop of src/simulation/runner.py over the         *)
(* SimulationManager of src/simulation/simulation_manager.py and the       *)
(* Environment of src/environment.py, and the phase functions of           *)
(* src/simulation/systems/*.py.                                            *)
(*                                                                         *)
(* Conventions of the translation                                          *)
(*  - agent arrays are sequences; a python index i is the model index i+1, *)
(*    and the target sentinel -1 is kept as -1;                            *)
(*  - plankton and marine snow are fixed-point numbers in thousandths      *)
(*    (1.0 is 1000), products are rounded down;                            *)
(*  - an energy is a dyadic number <<n, k>> of tenths, n / 2^k tenths, so   *)
(*    that the halving of the reproduction phase is exact as it is on      *)
(*    floats;                                                              *)
(*  - a probability is a percentage; a Bernoulli draw against it is a      *)
(*    choice among the outcomes the draw can have.                         *)
(***************************************************************************)
EXTENDS Integers, Sequences, FiniteSets, TLC

(* ---------------- bounds of the model ---------------- *)
MaxWidth == 2
MaxHeight == 2
MaxDepth == 2
SimulationTicks == 2
InitialZooplanktonCount == 2
InitialSmallFishCount == 1
InitialCrabCount == 1
EnvWidth == 3
EnvDepth == 3
EnvUpdates == 5
RecursionLimit == 4

(* ---------------- configuration (sim_config.json, fauna_config.json) ---- *)
sim_config ==
  [ simulation_ticks |-> SimulationTicks,
    initial_zooplankton_count |-> InitialZooplanktonCount,
    initial_small_fish_count |-> InitialSmallFishCount,
    initial_crab_count |-> InitialCrabCount,
    initial_food_density |-> 1000,          \* 1.0
    plankton_diffusion_rate |-> 50,         \* 0.05
    plankton_max_growth_rate |-> 100,       \* 0.1
    marine_snow_decay_rate |-> 990,         \* 0.99
    marine_snow_sinking_factor |-> 900,     \* 0.9
    snow_to_plankton_conversion |-> 100,    \* 0.1
    bootstrap_period |-> 1,
    event_chance |-> 0,                     \* percent
    event_duration |-> 2,
    plankton_bloom_modifier |-> 2,
    disease_zone_modifier |-> 2,
    deep_sea_depth_fraction |-> 66,         \* percent
    polar_zone_width_fraction |-> 25,       \* percent
    num_coral_reefs |-> 0,
    num_refuges |-> 1,
    refuge_size |-> 1,
    threat_update_interval |-> 2,
    cleanup_interval |-> 2,
    initial_agent_capacity |-> 5,
    absolute_max_agents |-> 8 ]

SPECIES_ID == [Zooplankton |-> 1, SmallFish |-> 2, Crab |-> 3]
SpeciesNames == {"Zooplankton", "SmallFish", "Crab"}

fauna_configs ==
  [ Zooplankton |->
      [ size |-> 1000, initial_energy |-> 20, metabolic_rate |-> 10,
        reproduction_threshold |-> 25, max_lifespan |-> 3,
        eating_rate |-> 500, energy_conversion_factor |-> 2,
        carrying_capacity_threshold |-> 1, starvation_chance |-> 50,
        disease_threshold |-> 2, disease_chance |-> 50 ],
    SmallFish |->
      [ size |-> 2000, initial_energy |-> 30, metabolic_rate |-> 10,
        reproduction_threshold |-> 45, max_lifespan |-> 5,
        overcrowding_penalty |-> 10,
        vision_radius |-> 2, predation_range |-> 2,
        hunt_success_chance |-> 50, maturity_age |-> 2,
        juvenile_hunt_modifier |-> 50, refuge_vision_modifier |-> 50,
        energy_transfer_efficiency |-> 1,
        satiation_period |-> 2, reproduction_cooldown_period |-> 2 ],
    Crab |->
      [ size |-> 1000, initial_energy |-> 20, metabolic_rate |-> 10,
        reproduction_threshold |-> 25, max_lifespan |-> 4,
        eating_rate |-> 500, energy_conversion_factor |-> 2,
        carrying_capacity_threshold |-> 1, starvation_chance |-> 50 ] ]

SpeciesName(id) == CHOOSE n \in SpeciesNames : SPECIES_ID[n] = id

(* ---------------- numbers ---------------- *)
Min(a, b) == IF a < b THEN a ELSE b
Max(a, b) == IF a > b THEN a ELSE b
Clip(v, lo, hi) == Max(lo, Min(v, hi))
Sign(v) == IF v > 0 THEN 1 ELSE IF v < 0 THEN -1 ELSE 0
Pow2(k) == IF k = 0 THEN 1 ELSE IF k = 1 THEN 2 ELSE IF k = 2 THEN 4
           ELSE IF k = 3 THEN 8 ELSE IF k = 4 THEN 16 ELSE IF k = 5 THEN 32 ELSE 64

(* dyadic energies: <<n, k>> is n / 2^k; normal form has k = 0 or n odd *)
DInt(n) == <<n, 0>>
DAddInt(e, m) == <<e[1] + m * Pow2(e[2]), e[2]>>
DHalf(e) == IF e[2] = 0 /\ e[1] % 2 = 0 THEN <<e[1] \div 2, 0>> ELSE <<e[1], e[2] + 1>>
DNorm(e) == IF e[2] > 0 /\ e[1] % 2 = 0
            THEN (IF e[2] > 1 /\ (e[1] \div 2) % 2 = 0
                  THEN (IF e[2] > 2 /\ (e[1] \div 4) % 2 = 0
                        THEN <<e[1] \div 8, e[2] - 3>>
                        ELSE <<e[1] \div 4, e[2] - 2>>)
                  ELSE <<e[1] \div 2, e[2] - 1>>)
            ELSE e
DAdd(a, b) == LET k == Max(a[2], b[2])
              IN  DNorm(<<a[1] * Pow2(k - a[2]) + b[1] * Pow2(k - b[2]), k>>)
DGtInt(e, m) == e[1] > m * Pow2(e[2])
DLtInt(e, m) == e[1] < m * Pow2(e[2])
(* a test of starvation that no energy meets *)
NeverStarved(e) == FALSE

DLeqZero(e) == e[1] <= 0

(* a Bernoulli draw "random() < chance": random() is in [0, 1) *)
Bernoulli(chance) == IF chance <= 0 THEN {FALSE} ELSE IF chance >= 100 THEN {TRUE}
                     ELSE {TRUE, FALSE}

(* ---------------- state ---------------- *)
VARIABLES
  width, height, depth, configs, loader,   \* the dimensions of the lattice (grid_width, grid_height, grid_depth)
  pc,               \* position of the run: the next phase of the tick loop
  tick,             \* loop variable of the runner (0-based)
  history,          \* the list run_headless_simulation returns
  positions, energies, species_ids, alive_mask, cooldowns, ages,
  satiation_timers, targets,                       \* the manager's arrays
  plankton, marine_snow, nutrient_map, disease_risk_map,
  current_event, event_timer, refuge_map,          \* the environment
  phases_done,      \* the phases run so far in the current tick, in order
  prev,             \* the manager's arrays as they were before the last phase
  draw,             \* the random outcomes of the last phase
  tick_log,         \* the live counts at the end of every tick simulated so far
  capacity, num_agents, threatened_mask, flee_vectors, search_vectors,
                    \* the manager the phase functions of systems/ work on
  owed,             \* the sizes of the agents that died since the last cleanup
  first_history     \* the history of the first of two runs of one configuration

vars == <<width, height, depth, configs, loader, pc, tick, history, positions, energies, species_ids, alive_mask, cooldowns,
          ages, satiation_timers, targets, plankton, marine_snow, nutrient_map,
          disease_risk_map, current_event, event_timer, refuge_map, phases_done,
          prev, draw, tick_log, capacity, num_agents, threatened_mask, flee_vectors,
          search_vectors, owed, first_history>>

agentVars == <<positions, energies, species_ids, alive_mask, cooldowns, ages,
               satiation_timers, targets>>
systemsVars == <<capacity, num_agents, threatened_mask, flee_vectors, search_vectors, owed>>
envVars == <<width, height, depth, configs, loader, plankton, marine_snow, nutrient_map, disease_risk_map, current_event,
             event_timer, refuge_map>>

Snapshot == [positions |-> positions, energies |-> energies, species_ids |-> species_ids,
             alive_mask |-> alive_mask, cooldowns |-> cooldowns, ages |-> ages,
             satiation_timers |-> satiation_timers, targets |-> targets,
             marine_snow |-> marine_snow, plankton |-> plankton]

(* ---------------- the lattice ---------------- *)
Cells == (0 .. width - 1) \X (0 .. height - 1) \X (0 .. depth - 1)
InGrid(p) == /\ 0 <= p[1] /\ p[1] < width
             /\ 0 <= p[2] /\ p[2] < height
             /\ 0 <= p[3] /\ p[3] < depth
RandInt3 == {-1, 0, 1} \X {-1, 0, 1} \X {-1, 0, 1}
Dist2(p, q) == (p[1] - q[1]) * (p[1] - q[1]) + (p[2] - q[2]) * (p[2] - q[2])
               + (p[3] - q[3]) * (p[3] - q[3])

NoSnapshot == [none |-> TRUE]

Idx == 1 .. Len(alive_mask)
IsSpecies(i, name) == species_ids[i] = SPECIES_ID[name]
AliveOf(name) == {i \in Idx : alive_mask[i] /\ IsSpecies(i, name)}

(* s[mask]: the entries of s at the indices where mask holds, in index order *)
BoolIndex(s, mask) ==
  LET F[i \in 0 .. Len(s)] ==
        IF i = 0 THEN <<>> ELSE IF mask[i] THEN Append(F[i - 1], s[i]) ELSE F[i - 1]
  IN  F[Len(s)]

(* ---------------- Environment (src/environment.py) ---------------- *)
(* self.config *)
env_config == configs.env

BIOME_DATA ==
  [b \in 0 .. 3 |->
     IF b = 0 THEN [nutrient_factor |-> 10, vision_modifier |-> 10, metabolic_modifier |-> 10]
     ELSE IF b = 1 THEN [nutrient_factor |-> 3, vision_modifier |-> 5, metabolic_modifier |-> 8]
     ELSE IF b = 2 THEN [nutrient_factor |-> 7, vision_modifier |-> 12, metabolic_modifier |-> 7]
     ELSE [nutrient_factor |-> 15, vision_modifier |-> 8, metabolic_modifier |-> 12]]

biome_map ==
  LET deep_sea_depth == (depth * sim_config.deep_sea_depth_fraction) \div 100
      polar_width == (width * sim_config.polar_zone_width_fraction) \div 100
  IN  [c \in Cells |-> IF c[1] < polar_width THEN 2
                       ELSE IF c[3] >= deep_sea_depth THEN 1 ELSE 0]

base_nutrient_map == [c \in Cells |-> BIOME_DATA[biome_map[c]].nutrient_factor]
metabolic_map == [c \in Cells |-> BIOME_DATA[biome_map[c]].metabolic_modifier]

(* exp(-0.5 z) in thousandths *)
sunlight == [c \in Cells |->
               IF c[3] = 0 THEN 1000 ELSE IF c[3] = 1 THEN 607 ELSE IF c[3] = 2 THEN 368
               ELSE IF c[3] = 3 THEN 223 ELSE 135]

(* the refuge columns around the drawn centres *)
RefugeMapOf(x, y) ==
  LET rs == sim_config.refuge_size
  IN  [c \in Cells |-> /\ Max(0, x - rs) <= c[1] /\ c[1] < Min(width, x + rs)
                       /\ Max(0, y - rs) <= c[2] /\ c[2] < Min(height, y + rs)]

(* _update_dynamic_events: the timer, then the start of a new event *)
EventsAfterTimer ==
  IF event_timer > 0
  THEN IF event_timer - 1 = 0
       THEN [timer |-> 0, nutrient |-> base_nutrient_map,
             risk |-> [c \in Cells |-> 10], event |-> "none"]
       ELSE [timer |-> event_timer - 1, nutrient |-> nutrient_map,
             risk |-> disease_risk_map, event |-> current_event]
  ELSE [timer |-> event_timer, nutrient |-> nutrient_map,
        risk |-> disease_risk_map, event |-> current_event]

EventDraws == {"no_event", "bloom", "disease"}

UpdateDynamicEvents(d) ==
  LET a == EventsAfterTimer
  IN  IF a.event = "none" /\ d # "no_event"
      THEN IF d = "bloom"
           THEN [timer |-> env_config.event_duration, event |-> "Plankton Bloom",
                 nutrient |-> [c \in Cells |->
                                 IF biome_map[c] = 0
                                 THEN a.nutrient[c] * sim_config.plankton_bloom_modifier
                                 ELSE a.nutrient[c]],
                 risk |-> a.risk]
           ELSE [timer |-> env_config.event_duration, event |-> "Disease Zone",
                 nutrient |-> a.nutrient,
                 risk |-> [c \in Cells |->
                             IF biome_map[c] = 3
                             THEN a.risk[c] * sim_config.disease_zone_modifier
                             ELSE a.risk[c]]]
      ELSE a

(* the draws _update_dynamic_events can make in the current state *)
PossibleEventDraws ==
  IF EventsAfterTimer.event = "none"
  THEN {d \in EventDraws : (d = "no_event") \in {~b : b \in Bernoulli(env_config.event_chance)}}
  ELSE {"no_event"}

(* convolve(plankton, kernel, mode='wrap'): the 6 neighbours, every axis wrapped *)
Neighbours(c) ==
  << <<(c[1] + 1) % width, c[2], c[3]>>, <<(c[1] - 1) % width, c[2], c[3]>>,
     <<c[1], (c[2] + 1) % height, c[3]>>, <<c[1], (c[2] - 1) % height, c[3]>>,
     <<c[1], c[2], (c[3] + 1) % depth>>, <<c[1], c[2], (c[3] - 1) % depth>> >>

Diffusion(p, c) ==
  LET n == Neighbours(c)
      lap == p[n[1]] + p[n[2]] + p[n[3]] + p[n[4]] + p[n[5]] + p[n[6]] - 6 * p[c]
  IN  (lap * sim_config.plankton_diffusion_rate) \div 1000

Growth(p, nutrient, c) ==
  LET logistic == (p * (1000 - p)) \div 1000
      lit == (logistic * sunlight[c]) \div 1000
      grown == (lit * sim_config.plankton_max_growth_rate) \div 1000
  IN  (grown * nutrient[c]) \div 10

(* _update_plankton_dynamics: diffusion, growth, clip *)
UpdatePlanktonDynamics(p, nutrient) ==
  LET diffused == [c \in Cells |-> p[c] + Diffusion(p, c)]
      grown == [c \in Cells |-> diffused[c] + Growth(diffused[c], nutrient, c)]
  IN  [c \in Cells |-> Clip(grown[c], 0, 1000)]

(* _update_marine_snow: the snow after sinking, before the decay *)
SinkingSnow(snow) ==
  [c \in Cells |-> IF c[3] = 0 THEN 0
                   ELSE (snow[<<c[1], c[2], c[3] - 1>>]
                         * sim_config.marine_snow_sinking_factor) \div 1000]

SnowToPlankton(p, sunk) ==
  [c \in Cells |-> p[c] + (sunk[c] * sim_config.snow_to_plankton_conversion) \div 1000]

SnowDecay(sunk) == [c \in Cells |-> (sunk[c] * sim_config.marine_snow_decay_rate) \div 1000]

(* deposit_marine_snow: a position outside the lattice deposits nothing *)
DepositMarineSnow(snow, p, amount) ==
  IF InGrid(p) THEN [snow EXCEPT ![p] = @ + amount] ELSE snow

(* Environment.update *)
EnvironmentUpdate ==
  \E d \in PossibleEventDraws :
    LET ev == UpdateDynamicEvents(d)
        p1 == UpdatePlanktonDynamics(plankton, ev.nutrient)
        sunk == SinkingSnow(marine_snow)
    IN  /\ event_timer' = ev.timer
        /\ current_event' = ev.event
        /\ nutrient_map' = ev.nutrient
        /\ disease_risk_map' = ev.risk
        /\ plankton' = SnowToPlankton(p1, sunk)
        /\ marine_snow' = SnowDecay(sunk)
        /\ draw' = [none |-> TRUE]

(* SimulationManager.update: the environment first; with no live agent the
   phases are skipped *)
EnvUpdate ==
  /\ pc = "env_update"
  /\ EnvironmentUpdate
  /\ prev' = NoSnapshot
  /\ phases_done' = <<"env_update">>
  /\ pc' = IF \E i \in Idx : alive_mask[i] THEN "metabolism" ELSE "cleanup"
  /\ UNCHANGED <<tick, history, agentVars, refuge_map, width, height, depth, configs, loader, tick_log,
                 systemsVars, first_history>>

(* ---------------- SimulationManager (src/simulation/simulation_manager.py) ---- *)
Phase(name, next) ==
  /\ pc = name
  /\ pc' = next
  /\ phases_done' = Append(phases_done, name)
  /\ UNCHANGED <<tick, history, tick_log, systemsVars, first_history>>

(* numpy indexing: a negative index counts from the end, any other index outside
   the axis raises IndexError *)
NpIndexable(p) == /\ -width <= p[1] /\ p[1] < width
                  /\ -height <= p[2] /\ p[2] < height
                  /\ -depth <= p[3] /\ p[3] < depth
NpCell(p) == <<p[1] % width, p[2] % height, p[3] % depth>>

(* the number of live agents of a species at each position *)
CountAt(name, p) == Cardinality({j \in AliveOf(name) : positions[j] = p})

MetabolicLoss(i) ==
  LET rate == fauna_configs[SpeciesName(species_ids[i])].metabolic_rate
  IN  (rate * metabolic_map[NpCell(positions[i])]) \div 10

OvercrowdingPenalty(i) ==
  LET penalty == fauna_configs.SmallFish.overcrowding_penalty
      n == CountAt("SmallFish", positions[i])
  IN  IF penalty > 0 /\ IsSpecies(i, "SmallFish") /\ n > 1 THEN (n - 1) * penalty ELSE 0

TimerDown(t) == Max(0, t - 1)

ApplyMetabolismAndAging ==
  /\ pc = "metabolism"
  /\ IF \E i \in Idx : alive_mask[i] /\ ~NpIndexable(positions[i])
     THEN /\ pc' = "raised"
          /\ UNCHANGED <<tick, history, agentVars, envVars, phases_done, prev, draw, tick_log,
                         systemsVars, first_history>>
     ELSE /\ Phase("metabolism", "eat_plankton")
          /\ energies' = [i \in Idx |->
                            IF alive_mask[i]
                            THEN DAddInt(energies[i], -(MetabolicLoss(i) + OvercrowdingPenalty(i)))
                            ELSE energies[i]]
          /\ cooldowns' = [i \in Idx |-> IF IsSpecies(i, "SmallFish")
                                         THEN TimerDown(cooldowns[i]) ELSE cooldowns[i]]
          /\ satiation_timers' = [i \in Idx |-> IF IsSpecies(i, "SmallFish")
                                                THEN TimerDown(satiation_timers[i])
                                                ELSE satiation_timers[i]]
          /\ ages' = [i \in Idx |-> IF alive_mask[i] THEN ages[i] + 1 ELSE ages[i]]
          /\ draw' = [none |-> TRUE]
          /\ prev' = NoSnapshot
          /\ UNCHANGED <<positions, species_ids, alive_mask, targets, envVars>>

(* amount * conversion factor, thousandths to tenths of energy *)
EnergyGain(amount, factor) == (amount * factor) \div 100

(* field[px, py, pz] -= amounts: with repeated cells the assignment is made once
   per cell from the value read before the statement *)
EatPlankton ==
  /\ Phase("eat_plankton", "scavenging")
  /\ LET zoo == AliveOf("Zooplankton")
         cfg == fauna_configs.Zooplankton
         amount_to_eat(i) == Min(plankton[positions[i]], cfg.eating_rate)
     IN  /\ plankton' = [c \in Cells |->
                           IF \E i \in zoo : positions[i] = c
                           THEN plankton[c] - Min(plankton[c], cfg.eating_rate)
                           ELSE plankton[c]]
         /\ energies' = [i \in Idx |->
                           IF i \in zoo
                           THEN DAddInt(energies[i],
                                        EnergyGain(amount_to_eat(i), cfg.energy_conversion_factor))
                           ELSE energies[i]]
  /\ draw' = [none |-> TRUE]
  /\ prev' = NoSnapshot
  /\ UNCHANGED <<positions, species_ids, alive_mask, cooldowns, ages, satiation_timers,
                 targets, marine_snow, nutrient_map, disease_risk_map, current_event,
                 event_timer, refuge_map, width, height, depth, configs, loader>>

(* the 9 offsets in the order of the list comprehension; argmax keeps the first
   greatest value; the neighbour read is clipped to the plane *)
Offsets == << <<-1, -1>>, <<-1, 0>>, <<-1, 1>>, <<0, -1>>, <<0, 0>>, <<0, 1>>,
              <<1, -1>>, <<1, 0>>, <<1, 1>> >>

SnowAtOffset(snow, p, k) ==
  snow[<<Clip(p[1] + Offsets[k][1], 0, width - 1),
         Clip(p[2] + Offsets[k][2], 0, height - 1), p[3]>>]

ArgMaxOffset(snow, p) ==
  CHOOSE k \in 1 .. 9 :
    /\ \A j \in 1 .. 9 : SnowAtOffset(snow, p, j) <= SnowAtOffset(snow, p, k)
    /\ \A j \in 1 .. k - 1 : SnowAtOffset(snow, p, j) < SnowAtOffset(snow, p, k)

ScavengeMove(snow, p) ==
  IF p[3] < depth - 1
  THEN <<p[1], p[2], p[3] + 1>>
  ELSE LET o == Offsets[ArgMaxOffset(snow, p)]
       IN  <<(p[1] + o[1]) % width, (p[2] + o[2]) % height, p[3]>>

HandleScavenging ==
  /\ Phase("scavenging", "move_predators")
  /\ LET crabs == AliveOf("Crab")
         cfg == fauna_configs.Crab
         moved == [i \in Idx |-> IF i \in crabs THEN ScavengeMove(marine_snow, positions[i])
                                 ELSE positions[i]]
         amount_to_eat(i) == Min(marine_snow[moved[i]], cfg.eating_rate)
     IN  /\ positions' = moved
         /\ marine_snow' = [c \in Cells |->
                              IF \E i \in crabs : moved[i] = c
                              THEN marine_snow[c] - Min(marine_snow[c], cfg.eating_rate)
                              ELSE marine_snow[c]]
         /\ energies' = [i \in Idx |->
                           IF i \in crabs
                           THEN DAddInt(energies[i],
                                        EnergyGain(amount_to_eat(i), cfg.energy_conversion_factor))
                           ELSE energies[i]]
  /\ draw' = [none |-> TRUE]
  /\ prev' = NoSnapshot
  /\ UNCHANGED <<species_ids, alive_mask, cooldowns, ages, satiation_timers, targets,
                 plankton, nutrient_map, disease_risk_map, current_event, event_timer,
                 refuge_map, width, height, depth, configs, loader>>

AddVec(p, d) == <<p[1] + d[1], p[2] + d[2], p[3] + d[3]>>
SignVec(p, q) == <<Sign(p[1] - q[1]), Sign(p[2] - q[2]), Sign(p[3] - q[3])>>
Wrap(p) == <<p[1] % width, p[2] % height, Clip(p[3], 0, depth - 1)>>

(* _move_predators: a fish whose target is a live index chases it, every other
   fish wanders; a target that is dead or past the end of the arrays is dropped.
   No boundary is applied here. *)
ValidChase(i) == /\ targets[i] # -1
                 /\ targets[i] <= Len(alive_mask)
                 /\ alive_mask[targets[i]]

MovePredators ==
  /\ Phase("move_predators", "move_agents")
  /\ LET fish == AliveOf("SmallFish")
         wandering == {i \in fish : ~ValidChase(i)}
     IN  \E deltas \in [wandering -> RandInt3] :
           /\ positions' = [i \in Idx |->
                              IF i \in fish
                              THEN IF ValidChase(i)
                                   THEN AddVec(positions[i],
                                               SignVec(positions[targets[i]], positions[i]))
                                   ELSE AddVec(positions[i], deltas[i])
                              ELSE positions[i]]
           /\ targets' = [i \in Idx |-> IF i \in wandering THEN -1 ELSE targets[i]]
  /\ draw' = [none |-> TRUE]
  /\ prev' = NoSnapshot
  /\ UNCHANGED <<energies, species_ids, alive_mask, cooldowns, ages, satiation_timers,
                 envVars>>

(* _move_agents: the zooplankton wander and every position is brought back inside
   the lattice; with no live zooplankton the method returns before that *)
MoveAgents ==
  /\ Phase("move_agents", "predation")
  /\ LET zoo == AliveOf("Zooplankton")
     IN  IF zoo = {}
         THEN UNCHANGED positions
         ELSE \E moved \in [zoo -> Cells] :
                /\ \A i \in zoo : moved[i] \in {Wrap(AddVec(positions[i], d)) : d \in RandInt3}
                /\ positions' = [i \in Idx |-> IF i \in zoo THEN moved[i]
                                                ELSE Wrap(positions[i])]
  /\ draw' = [none |-> TRUE]
  /\ prev' = NoSnapshot
  /\ UNCHANGED <<energies, species_ids, alive_mask, cooldowns, ages, satiation_timers,
                 targets, envVars>>

(* _acquire_targets: the prey a searching fish can lock on to. query_ball_point
   keeps the prey at distance <= vision radius, argmin the nearest of them; the
   order of equidistant prey in the ball is the tree's, so any of them may come
   first. The radius is base * refuge modifier * biome modifier. *)
VisionRadiusScaled(h) ==
  LET cfg == fauna_configs.SmallFish
      c == positions[h]
  IN  cfg.vision_radius * (IF refuge_map[c] THEN cfg.refuge_vision_modifier ELSE 100)
        * BIOME_DATA[biome_map[c]].vision_modifier

AcquireChoices(h, pos, zoo) ==
  LET r == VisionRadiusScaled(h)
      inVision == {z \in zoo : Dist2(pos[z], pos[h]) * 1000000 <= r * r}
  IN  IF inVision = {} THEN {-1}
      ELSE {z \in inVision : \A y \in inVision : Dist2(pos[z], pos[h]) <= Dist2(pos[y], pos[h])}

HuntChance(h) ==
  LET cfg == fauna_configs.SmallFish
  IN  IF ages[h] < cfg.maturity_age
      THEN (cfg.hunt_success_chance * cfg.juvenile_hunt_modifier) \div 100
      ELSE cfg.hunt_success_chance

DScale(e, m) == <<e[1] * m, e[2]>>

(* _execute_hunts: the hunters are visited in index order; a hunter is credited
   when its draw succeeds and no earlier hunter has taken the same prey *)
SuccessfulHunters(hunters, rolls, tg) ==
  {h \in hunters : /\ rolls[h]
                   /\ \A g \in hunters : (g < h /\ rolls[g]) => tg[g] # tg[h]}

HandlePredation ==
  /\ Phase("predation", "carrying_capacity")
  /\ LET fish == AliveOf("SmallFish")
         zoo == AliveOf("Zooplankton")
         cfg == fauna_configs.SmallFish
     IN  IF fish = {} \/ zoo = {}
         THEN /\ UNCHANGED <<energies, alive_mask, satiation_timers, targets>>
              /\ draw' = [none |-> TRUE]
              /\ prev' = NoSnapshot
         ELSE LET validated == [i \in Idx |->
                                  IF /\ i \in fish /\ targets[i] # -1
                                     /\ targets[i] <= Len(alive_mask)
                                     /\ ~alive_mask[targets[i]]
                                  THEN -1 ELSE targets[i]]
                  searching == {h \in fish : validated[h] = -1 /\ satiation_timers[h] = 0}
              IN  \E acq \in [searching -> Idx \cup {-1}] :
                    /\ \A h \in searching : acq[h] \in AcquireChoices(h, positions, zoo)
                    /\ LET tg == [i \in Idx |-> IF i \in searching THEN acq[i] ELSE validated[i]]
                           hunting == {h \in fish : tg[h] # -1}
                           in_range == {h \in hunting :
                                          Dist2(positions[tg[h]], positions[h])
                                            < cfg.predation_range * cfg.predation_range}
                       IN  \E rolls \in [in_range -> BOOLEAN] :
                             /\ \A h \in in_range : rolls[h] \in Bernoulli(HuntChance(h))
                             /\ LET winners == SuccessfulHunters(in_range, rolls, tg)
                                    eaten == {tg[h] : h \in winners}
                                IN  /\ alive_mask' = [i \in Idx |-> alive_mask[i] /\ i \notin eaten]
                                    /\ energies' =
                                         [i \in Idx |->
                                            IF i \in winners
                                            THEN DAdd(energies[i],
                                                      DScale(energies[tg[i]],
                                                             cfg.energy_transfer_efficiency))
                                            ELSE energies[i]]
                                    /\ satiation_timers' =
                                         [i \in Idx |-> IF i \in winners THEN cfg.satiation_period
                                                        ELSE satiation_timers[i]]
                                    /\ targets' = [i \in Idx |-> IF i \in winners THEN -1 ELSE tg[i]]
                                    /\ draw' = [rolls |-> rolls]
                                    /\ prev' = Snapshot
  /\ UNCHANGED <<positions, species_ids, cooldowns, ages, envVars>>

(* the agents a population control can kill: each candidate draws on its own *)
DeathSets(candidates, chance) ==
  {d \in SUBSET candidates : \A i \in candidates : (i \in d) \in Bernoulli(chance)}

Overcrowded(name, threshold) ==
  {i \in AliveOf(name) : CountAt(name, positions[i]) > threshold}

Kill(dead) ==
  /\ alive_mask' = [i \in Idx |-> alive_mask[i] /\ i \notin dead]
  /\ draw' = [none |-> TRUE]
  /\ prev' = NoSnapshot
  /\ UNCHANGED <<positions, energies, species_ids, cooldowns, ages, satiation_timers,
                 targets, envVars>>

HandleCarryingCapacity ==
  /\ Phase("carrying_capacity", "disease")
  /\ LET cfg == fauna_configs.Zooplankton
     IN  \E dead \in DeathSets(Overcrowded("Zooplankton", cfg.carrying_capacity_threshold),
                               cfg.starvation_chance) : Kill(dead)

HandleDisease ==
  /\ Phase("disease", "scavenger_overcrowding")
  /\ LET cfg == fauna_configs.Zooplankton
         zoo == AliveOf("Zooplankton")
     IN  \E dead \in DeathSets(IF Cardinality(zoo) > cfg.disease_threshold THEN zoo ELSE {},
                               cfg.disease_chance) : Kill(dead)

HandleScavengerOvercrowding ==
  /\ Phase("scavenger_overcrowding", "deaths")
  /\ LET cfg == fauna_configs.Crab
     IN  \E dead \in DeathSets(Overcrowded("Crab", cfg.carrying_capacity_threshold),
                               cfg.starvation_chance) : Kill(dead)

(* _handle_deaths: starvation or old age *)
NewlyDead ==
  {i \in Idx : /\ alive_mask[i]
               /\ \/ DLeqZero(energies[i])
                  \/ ages[i] >= fauna_configs[SpeciesName(species_ids[i])].max_lifespan}

HandleDeaths ==
  /\ Phase("deaths", "reproduction")
  /\ Kill(NewlyDead)

(* _handle_reproduction: the parents' energy is halved and the offspring are
   appended to the arrays in the parents' index order *)
ReproMask ==
  [i \in Idx |->
     /\ alive_mask[i]
     /\ DGtInt(energies[i], fauna_configs[SpeciesName(species_ids[i])].reproduction_threshold)
     /\ IsSpecies(i, "SmallFish") => cooldowns[i] = 0]

HandleReproduction ==
  /\ Phase("reproduction", "cleanup")
  /\ LET repro_mask == ReproMask
         halved == [i \in Idx |-> IF repro_mask[i] THEN DHalf(energies[i]) ELSE energies[i]]
         n == Len(BoolIndex(positions, repro_mask))
         Fill(v) == [k \in 1 .. n |-> v]
     IN  /\ energies' = halved \o BoolIndex(halved, repro_mask)
         /\ positions' = positions \o BoolIndex(positions, repro_mask)
         /\ species_ids' = species_ids \o BoolIndex(species_ids, repro_mask)
         /\ cooldowns' = [i \in Idx |->
                            IF repro_mask[i] /\ IsSpecies(i, "SmallFish")
                            THEN fauna_configs.SmallFish.reproduction_cooldown_period
                            ELSE cooldowns[i]] \o Fill(0)
         /\ alive_mask' = alive_mask \o Fill(TRUE)
         /\ ages' = ages \o Fill(0)
         /\ satiation_timers' = satiation_timers \o Fill(0)
         /\ targets' = targets \o Fill(-1)
  /\ draw' = [none |-> TRUE]
  /\ prev' = NoSnapshot
  /\ UNCHANGED envVars

(* get_population_counts *)
get_population_counts ==
  [zooplankton |-> Cardinality(AliveOf("Zooplankton")),
   small_fish |-> Cardinality(AliveOf("SmallFish")),
   crab |-> Cardinality(AliveOf("Crab"))]

(* cleanup: every dead agent deposits its size where it lies, then every array
   is reduced to its live entries; the values of targets are kept as they are *)
DeadSnow(c) ==
  LET F[i \in 0 .. Len(alive_mask)] ==
        IF i = 0 THEN 0
        ELSE F[i - 1] + (IF ~alive_mask[i] /\ positions[i] = c
                         THEN fauna_configs[SpeciesName(species_ids[i])].size ELSE 0)
  IN  F[Len(alive_mask)]

Cleanup ==
  /\ pc = "cleanup"
  /\ pc' = "record"
  /\ phases_done' = Append(phases_done, "cleanup")
  /\ prev' = Snapshot
  /\ marine_snow' = [c \in Cells |-> marine_snow[c] + DeadSnow(c)]
  /\ positions' = BoolIndex(positions, alive_mask)
  /\ energies' = BoolIndex(energies, alive_mask)
  /\ species_ids' = BoolIndex(species_ids, alive_mask)
  /\ cooldowns' = BoolIndex(cooldowns, alive_mask)
  /\ ages' = BoolIndex(ages, alive_mask)
  /\ satiation_timers' = BoolIndex(satiation_timers, alive_mask)
  /\ targets' = BoolIndex(targets, alive_mask)
  /\ alive_mask' = [k \in 1 .. Len(BoolIndex(alive_mask, alive_mask)) |-> TRUE]
  /\ draw' = [none |-> TRUE]
  /\ tick_log' = Append(tick_log, get_population_counts)
  /\ UNCHANGED <<tick, history, plankton, nutrient_map, disease_risk_map, current_event,
                 event_timer, refuge_map, width, height, depth, configs, loader, systemsVars, first_history>>

(* ---------------- the runner (src/simulation/runner.py) ---------------- *)
HistoryEntryOneLate(t, counts) ==
  [tick |-> t + 1, zooplankton |-> counts.zooplankton, small_fish |-> counts.small_fish,
   crab |-> counts.crab]

HistoryEntry(t, counts) ==
  [tick |-> t, zooplankton |-> counts.zooplankton, small_fish |-> counts.small_fish,
   crab |-> counts.crab]

CollapsedAll(counts) == counts.zooplankton = 0 /\ counts.small_fish = 0 /\ counts.crab = 0

(* the early stop of run_headless_simulation: "if any species has collapsed" *)
Collapsed(counts) == counts.zooplankton = 0 \/ counts.small_fish = 0 \/ counts.crab = 0

(* the end of one iteration of run_headless_simulation *)
Record ==
  /\ pc = "record"
  /\ LET counts == get_population_counts
         entry == HistoryEntry(tick + 1, counts)
         collapsed == Collapsed(counts)
         zeros == [zooplankton |-> 0, small_fish |-> 0, crab |-> 0]
     IN  IF collapsed
         THEN /\ history' = history \o <<entry, HistoryEntry(tick + 2, zeros)>>
              /\ pc' = "done"
              /\ UNCHANGED tick
         ELSE /\ history' = Append(history, entry)
              /\ tick' = tick + 1
              /\ pc' = IF tick + 1 < sim_config.simulation_ticks THEN "env_update" ELSE "done"
  /\ prev' = NoSnapshot
  /\ UNCHANGED <<agentVars, envVars, phases_done, draw, tick_log, systemsVars, first_history>>

(* setup_simulation and the constructors: the agents of each species in turn, each
   at a random cell; one refuge centre drawn per configured refuge *)
InitialSpecies ==
  [k \in 1 .. InitialZooplanktonCount |-> SPECIES_ID.Zooplankton]
    \o [k \in 1 .. InitialSmallFishCount |-> SPECIES_ID.SmallFish]
    \o [k \in 1 .. InitialCrabCount |-> SPECIES_ID.Crab]

(* the lattices of the model: one long axis at a time *)
Grids == {<<1, 1, MaxDepth>>, <<MaxWidth, 1, 1>>, <<1, MaxHeight, 1>>}

Setup(grids) ==
  /\ \E g \in grids : width = g[1] /\ height = g[2] /\ depth = g[3]
  /\ pc = "env_update"
  /\ tick = 0
  /\ history = <<>>
  /\ species_ids = InitialSpecies
  /\ positions \in [1 .. Len(InitialSpecies) -> Cells]
  /\ energies = [i \in 1 .. Len(InitialSpecies) |->
                   DInt(fauna_configs[SpeciesName(InitialSpecies[i])].initial_energy)]
  /\ alive_mask = [i \in 1 .. Len(InitialSpecies) |-> TRUE]
  /\ cooldowns = [i \in 1 .. Len(InitialSpecies) |-> 0]
  /\ ages = [i \in 1 .. Len(InitialSpecies) |-> 0]
  /\ satiation_timers = [i \in 1 .. Len(InitialSpecies) |-> 0]
  /\ targets = [i \in 1 .. Len(InitialSpecies) |-> -1]
  /\ plankton = [c \in Cells |-> sim_config.initial_food_density]
  /\ marine_snow = [c \in Cells |-> 0]
  /\ nutrient_map = base_nutrient_map
  /\ disease_risk_map = [c \in Cells |-> 10]
  /\ current_event = "none"
  /\ event_timer = 0
  /\ \E x \in 0 .. width - 1, y \in 0 .. height - 1 : refuge_map = RefugeMapOf(x, y)
  /\ phases_done = <<>>
  /\ prev = NoSnapshot
  /\ draw = [none |-> TRUE]
  /\ tick_log = <<>>
  /\ capacity = Len(InitialSpecies)
  /\ num_agents = Len(InitialSpecies)
  /\ threatened_mask = <<>>
  /\ flee_vectors = <<>>
  /\ search_vectors = <<>>
  /\ owed = 0
  /\ first_history = <<>>
  /\ configs = [env |-> sim_config, fauna |-> fauna_configs]
  /\ loader = [raw |-> <<>>, outcome |-> [kind |-> "none"]]

Init == Setup(Grids)

Next ==
  \/ EnvUpdate
  \/ ApplyMetabolismAndAging
  \/ EatPlankton
  \/ HandleScavenging
  \/ MovePredators
  \/ MoveAgents
  \/ HandlePredation
  \/ HandleCarryingCapacity
  \/ HandleDisease
  \/ HandleScavengerOvercrowding
  \/ HandleDeaths
  \/ HandleReproduction
  \/ Cleanup
  \/ Record

Spec == Init /\ [][Next]_vars

(* run_headless_simulation called a second time with the configuration of the
   first call: setup_simulation and the constructors run again, and every draw
   comes from the generators of the modules numpy.random and random, which the
   program never seeds *)
RunAgain ==
  /\ pc = "done"
  /\ first_history = <<>>
  /\ first_history' = history
  /\ pc' = "env_update"
  /\ tick' = 0
  /\ history' = <<>>
  /\ species_ids' = InitialSpecies
  /\ positions' \in [1 .. Len(InitialSpecies) -> Cells]
  /\ energies' = [i \in 1 .. Len(InitialSpecies) |->
                    DInt(fauna_configs[SpeciesName(InitialSpecies[i])].initial_energy)]
  /\ alive_mask' = [i \in 1 .. Len(InitialSpecies) |-> TRUE]
  /\ cooldowns' = [i \in 1 .. Len(InitialSpecies) |-> 0]
  /\ ages' = [i \in 1 .. Len(InitialSpecies) |-> 0]
  /\ satiation_timers' = [i \in 1 .. Len(InitialSpecies) |-> 0]
  /\ targets' = [i \in 1 .. Len(InitialSpecies) |-> -1]
  /\ plankton' = [c \in Cells |-> sim_config.initial_food_density]
  /\ marine_snow' = [c \in Cells |-> 0]
  /\ nutrient_map' = base_nutrient_map
  /\ disease_risk_map' = [c \in Cells |-> 10]
  /\ current_event' = "none"
  /\ event_timer' = 0
  /\ \E x \in 0 .. width - 1, y \in 0 .. height - 1 : refuge_map' = RefugeMapOf(x, y)
  /\ phases_done' = <<>>
  /\ prev' = NoSnapshot
  /\ draw' = [none |-> TRUE]
  /\ tick_log' = <<>>
  /\ UNCHANGED <<width, height, depth, configs, loader, systemsVars>>

(* two runs of one configuration, on the lattice of a single cell *)
(* the end of one iteration of run_simulation, which never stops early and
   keeps no history *)
run_simulation ==
  /\ pc = "record"
  /\ tick' = tick + 1
  /\ pc' = IF tick + 1 < sim_config.simulation_ticks THEN "env_update" ELSE "done"
  /\ prev' = NoSnapshot
  /\ UNCHANGED <<history, agentVars, envVars, phases_done, draw, tick_log, systemsVars,
                 first_history>>

SpecRun ==
  Init /\ [][\/ EnvUpdate
             \/ ApplyMetabolismAndAging
             \/ EatPlankton
             \/ HandleScavenging
             \/ MovePredators
             \/ MoveAgents
             \/ HandlePredation
             \/ HandleCarryingCapacity
             \/ HandleDisease
             \/ HandleScavengerOvercrowding
             \/ HandleDeaths
             \/ HandleReproduction
             \/ Cleanup
             \/ run_simulation]_vars

InitTwoRuns == Setup({<<1, 1, 1>>})
NextTwoRuns == Next \/ RunAgain
SpecTwoRuns == InitTwoRuns /\ [][NextTwoRuns]_vars

(* ================= the manager of the phase functions ================= *)
(* ---------------- configuration (fauna_config.json, diet_config.json) ---- *)
(* dict.get(key, default) *)
Get(config, key, default) == IF key \in DOMAIN config THEN config[key] ELSE default

manager_SPECIES_ID ==
  [Zooplankton |-> 1, SmallFish |-> 2, Crab |-> 3, Seal |-> 4, SeaTurtle |-> 5]

(* sizes, rates and thresholds of plankton in thousandths, energies in tenths,
   chances and modifiers in percent, radii in cells *)
fauna_config_json ==
  [ Zooplankton |->
      [ size |-> 1000, initial_energy |-> 20, metabolic_rate |-> 10,
        reproduction_threshold |-> 12, max_lifespan |-> 3,
        eating_rate |-> 500, energy_conversion_factor |-> 4,
        plankton_satiation_period |-> 1,
        carrying_capacity_threshold |-> 3, starvation_chance |-> 50,
        disease_threshold |-> 1, disease_chance |-> 50,
        reproduction_fear_debuff |-> 50 ],
    SmallFish |->
      [ size |-> 2000, initial_energy |-> 30, metabolic_rate |-> 10,
        reproduction_threshold |-> 45, max_lifespan |-> 5,
        eating_rate |-> 200, energy_conversion_factor |-> 2,
        plankton_satiation_period |-> 1, prey_scarcity_threshold |-> 2,
        hunger_threshold |-> 32,
        carrying_capacity_threshold |-> 1, starvation_chance |-> 50,
        vision_radius |-> 1, predation_range |-> 1,
        hunt_success_chance |-> 50, maturity_age |-> 1,
        juvenile_hunt_modifier |-> 50, juvenile_metabolic_modifier |-> 50,
        satiation_period |-> 2, reproduction_cooldown_period |-> 2 ],
    Crab |->
      [ size |-> 1000, initial_energy |-> 13, metabolic_rate |-> 10,
        reproduction_threshold |-> 25, max_lifespan |-> 4,
        eating_rate |-> 500, energy_conversion_factor |-> 2,
        carrying_capacity_threshold |-> 1, starvation_chance |-> 50 ],
    Seal |->
      [ size |-> 5000, initial_energy |-> 60, metabolic_rate |-> 20,
        reproduction_threshold |-> 90, max_lifespan |-> 9,
        vision_radius |-> 2, predation_range |-> 1,
        hunt_success_chance |-> 50, maturity_age |-> 2,
        optimal_prey_size |-> 2000, prey_size_tolerance |-> 1000,
        satiation_period |-> 3, reproduction_cooldown_period |-> 3 ],
    SeaTurtle |->
      [ size |-> 3000, initial_energy |-> 40, metabolic_rate |-> 10,
        reproduction_threshold |-> 60, max_lifespan |-> 9,
        eating_rate |-> 300, energy_conversion_factor |-> 2,
        maturity_age |-> 2 ] ]

(* the diet table, in the order of its entries *)
diet_config ==
  << [predator |-> "SmallFish", prey |-> {"Zooplankton"}],
     [predator |-> "Seal", prey |-> {"SmallFish", "Crab", "SeaTurtle"}] >>

(* the configurations the manager and the environment were constructed with *)
manager_fauna_configs == configs.fauna

ConfigOf(i) ==
  manager_fauna_configs[CHOOSE n \in DOMAIN manager_SPECIES_ID :
                          manager_SPECIES_ID[n] = species_ids[i]]

(* (species_ids == id) & alive_mask *)
LiveOf(name) == {i \in Idx : alive_mask[i] /\ species_ids[i] = manager_SPECIES_ID[name]}

LiveCountAt(i) ==
  Cardinality({j \in Idx : /\ alive_mask[j] /\ species_ids[j] = species_ids[i]
                           /\ positions[j] = positions[i]})

(* ---------------- numbers of the phase functions ---------------- *)
DSub(a, b) == DAdd(a, <<-b[1], b[2]>>)
(* e * pct / 100, exact when pct is a multiple of 25 *)
DScalePct(e, pct) == DNorm(<<(e[1] * pct * 4) \div 100, e[2] + 2>>)

RECURSIVE SumOf(_, _)
SumOf(f, S) == IF S = {} THEN 0
               ELSE LET x == CHOOSE y \in S : TRUE IN f[x] + SumOf(f, S \ {x})

(* independent draws "random() < chance(i)", one per candidate: the candidates
   whose draw succeeds *)
Rolled(candidates, chance) ==
  {d \in SUBSET candidates : \A i \in candidates : (i \in d) \in Bernoulli(chance[i])}

(* the energy of a slot whose agent has been deposited, or that never held one *)
DEPOSITED == DInt(-9990)

(* the sizes owed to the marine snow after the alive flags become newAlive *)
OwedAfter(newAlive) ==
  owed + SumOf([i \in Idx |-> IF species_ids[i] = 0 THEN 0 ELSE ConfigOf(i).size],
               {i \in Idx : alive_mask[i] /\ ~newAlive[i]})

(* randint(-1, 2, size=3): a component along an axis of extent 1 has no effect on
   a position, and is drawn as 0 *)
RandomVectors == {v \in RandInt3 : /\ width = 1 => v[1] = 0
                                   /\ height = 1 => v[2] = 0
                                   /\ depth = 1 => v[3] = 0}

(* the search vector drawn for a new agent of species id: update_positions reads
   the search vector of a predator only, any other is drawn as 0 *)
SearchVectors(id) ==
  IF \E k \in 1 .. Len(diet_config) : id = manager_SPECIES_ID[diet_config[k].predator]
  THEN RandomVectors ELSE {<<0, 0, 0>>}

(* ---------------- the tick scheduler ---------------- *)
is_bootstrap == tick < env_config.bootstrap_period

ManagerPhase(name, next) ==
  /\ pc = name
  /\ pc' = next
  /\ phases_done' = Append(phases_done, name)
  /\ UNCHANGED <<tick, history, tick_log, first_history, width, height, depth, configs, loader, refuge_map>>

(* environment.update() at the start of the tick *)
manager_update ==
  /\ pc = "environment.update"
  /\ EnvironmentUpdate
  /\ pc' = IF tick % env_config.threat_update_interval = 0
           THEN "threat.update" ELSE "population.metabolism_and_aging"
  /\ phases_done' = <<"environment.update">>
  /\ prev' = NoSnapshot
  /\ owed' = 0
  /\ UNCHANGED <<tick, history, tick_log, first_history, width, height, depth, configs, loader, refuge_map,
                 agentVars, capacity, num_agents, threatened_mask, flee_vectors,
                 search_vectors>>

(* round(normalize(v)): a component c of v becomes sign(c) when |c| / |v| > 1/2;
   the sum of no offsets, or of offsets that cancel, gives the zero vector *)
RoundNormalize(v) ==
  LET n2 == Dist2(v, <<0, 0, 0>>)
      R(c) == IF 4 * c * c > n2 THEN Sign(c) ELSE 0
  IN  <<R(v[1]), R(v[2]), R(v[3])>>

THREAT_RADIUS == 15

update_threats ==
  /\ ManagerPhase("threat.update", "population.metabolism_and_aging")
  /\ LET predators == LiveOf("SmallFish") \cup LiveOf("Seal")
         prey == LiveOf("Zooplankton") \cup LiveOf("SmallFish") \cup LiveOf("Crab")
                   \cup LiveOf("SeaTurtle")
         near(p) == {q \in predators :
                       Dist2(positions[p], positions[q]) <= THREAT_RADIUS * THREAT_RADIUS}
         away(p) == <<SumOf([q \in Idx |-> positions[p][1] - positions[q][1]], near(p)),
                      SumOf([q \in Idx |-> positions[p][2] - positions[q][2]], near(p)),
                      SumOf([q \in Idx |-> positions[p][3] - positions[q][3]], near(p))>>
     IN  /\ threatened_mask' = [i \in Idx |-> i \in prey /\ near(i) # {}]
         /\ flee_vectors' = [i \in Idx |-> IF i \in prey /\ near(i) # {}
                                           THEN RoundNormalize(away(i)) ELSE <<0, 0, 0>>]
  /\ draw' = [none |-> TRUE]
  /\ prev' = NoSnapshot
  /\ UNCHANGED <<agentVars, plankton, marine_snow, nutrient_map, disease_risk_map,
                 current_event, event_timer, capacity, num_agents, search_vectors, owed>>

(* ---------------- src/simulation/systems/population_system.py ---------------- *)
ClipCell(p) == <<Clip(p[1], 0, width - 1), Clip(p[2], 0, height - 1), Clip(p[3], 0, depth - 1)>>

(* base_rate * modifiers * metabolic_mods, tenths of energy *)
MetabolicRate(i) ==
  LET config == ConfigOf(i)
      maturity_age == Get(config, "maturity_age", 0)
      base == DInt((config.metabolic_rate * metabolic_map[ClipCell(positions[i])]) \div 10)
      rate == IF is_bootstrap
              THEN DScalePct(base, Get(env_config, "bootstrap_metabolic_modifier", 50))
              ELSE base
  IN  IF maturity_age > 0 /\ ~is_bootstrap /\ ages[i] < maturity_age
      THEN DScalePct(rate, Get(config, "juvenile_metabolic_modifier", 100))
      ELSE rate

(* ages[alive_mask] += 1, in every tick *)
AgeAlways(i) == IF alive_mask[i] THEN ages[i] + 1 ELSE ages[i]

(* if not is_bootstrap: ages[alive_mask] += 1 *)
AgeAfterTick(i) == IF alive_mask[i] /\ ~is_bootstrap THEN ages[i] + 1 ELSE ages[i]

apply_metabolism_and_aging ==
  /\ ManagerPhase("population.metabolism_and_aging", "population.overcrowding")
  /\ IF \E i \in Idx : alive_mask[i]
     THEN /\ energies' = [i \in Idx |-> IF alive_mask[i]
                                        THEN DSub(energies[i], MetabolicRate(i))
                                        ELSE energies[i]]
          /\ cooldowns' = [i \in Idx |->
                             IF species_ids[i] \in {manager_SPECIES_ID.SmallFish,
                                                    manager_SPECIES_ID.Seal}
                             THEN TimerDown(cooldowns[i]) ELSE cooldowns[i]]
          /\ satiation_timers' = [i \in Idx |-> IF alive_mask[i]
                                                THEN TimerDown(satiation_timers[i])
                                                ELSE satiation_timers[i]]
          /\ ages' = [i \in Idx |-> AgeAfterTick(i)]
     ELSE UNCHANGED <<energies, cooldowns, satiation_timers, ages>>
  /\ draw' = [none |-> TRUE]
  /\ prev' = NoSnapshot
  /\ UNCHANGED <<positions, species_ids, alive_mask, targets, plankton, marine_snow,
                 nutrient_map, disease_risk_map, current_event, event_timer,
                 capacity, num_agents, threatened_mask, flee_vectors, search_vectors, owed>>

(* the alive flags of the agents in dead are cleared *)
ClearAlive(dead) ==
  /\ alive_mask' = [i \in Idx |-> alive_mask[i] /\ i \notin dead]
  /\ owed' = OwedAfter([i \in Idx |-> alive_mask[i] /\ i \notin dead])
  /\ draw' = [dead |-> dead]
  /\ prev' = NoSnapshot
  /\ UNCHANGED <<positions, energies, species_ids, cooldowns, ages, satiation_timers,
                 targets, plankton, marine_snow, nutrient_map, disease_risk_map,
                 current_event, event_timer, capacity, num_agents, threatened_mask,
                 flee_vectors, search_vectors>>

(* the species are handled one after the other; the cells of one species do not
   depend on the deaths of another *)
handle_overcrowding ==
  /\ ManagerPhase("population.overcrowding", "population.disease")
  /\ LET chance == [i \in Idx |-> IF alive_mask[i]
                                  THEN Get(ConfigOf(i), "starvation_chance", 0) ELSE 0]
         crowded == {i \in Idx : /\ alive_mask[i]
                                 /\ chance[i] # 0
                                 /\ LiveCountAt(i)
                                      > Get(ConfigOf(i), "carrying_capacity_threshold", 99)}
     IN  \E dead \in Rolled(crowded, chance) : ClearAlive(dead)

handle_disease ==
  /\ ManagerPhase("population.disease", "population.deaths")
  /\ LET chance == [i \in Idx |->
                      IF alive_mask[i]
                      THEN (Get(ConfigOf(i), "disease_chance", 0)
                              * disease_risk_map[positions[i]]) \div 10
                      ELSE 0]
         exposed == {i \in Idx :
                       /\ alive_mask[i]
                       /\ Get(ConfigOf(i), "disease_chance", 0) # 0
                       /\ Cardinality({j \in Idx : alive_mask[j]
                                                     /\ species_ids[j] = species_ids[i]})
                            > Get(ConfigOf(i), "disease_threshold", 99999)}
     IN  \E dead \in Rolled(exposed, chance) : ClearAlive(dead)

handle_deaths ==
  /\ ManagerPhase("population.deaths", "population.reproduction")
  /\ ClearAlive({i \in Idx : /\ alive_mask[i]
                             /\ \/ DLeqZero(energies[i])
                                \/ ages[i] >= Get(ConfigOf(i), "max_lifespan", 99999)})

(* the agents that may reproduce before the draws of the frightened ones *)
CanReproduce(i) ==
  LET config == ConfigOf(i)
      maturity_age == Get(config, "maturity_age", 0)
  IN  /\ alive_mask[i]
      /\ DGtInt(energies[i], Get(config, "reproduction_threshold", 9999))
      /\ LiveCountAt(i) < Get(config, "carrying_capacity_threshold", 99)
      /\ (maturity_age > 0 /\ ~is_bootstrap) => ages[i] >= maturity_age

(* the sorted indices of a set of slots: np.where(mask)[0] *)
Where(S) == BoolIndex([i \in Idx |-> i], [i \in Idx |-> i \in S])

(* energies[slots] = energies[parents], then energies[parents] /= 2 *)
EnergiesUnsplitOffspring(parents, slots) ==
  [i \in Idx |->
     IF \E k \in 1 .. Len(parents) : parents[k] = i THEN DHalf(energies[i])
     ELSE IF \E k \in 1 .. Len(slots) : slots[k] = i
          THEN energies[parents[CHOOSE k \in 1 .. Len(slots) : slots[k] = i]]
          ELSE energies[i]]

(* energies[parents] /= 2, then energies[slots] = energies[parents] *)
EnergiesAfterBirth(parents, slots) ==
  [i \in Idx |->
     IF \E k \in 1 .. Len(parents) : parents[k] = i THEN DHalf(energies[i])
     ELSE IF \E k \in 1 .. Len(slots) : slots[k] = i
          THEN DHalf(energies[parents[CHOOSE k \in 1 .. Len(slots) : slots[k] = i]])
          ELSE energies[i]]

(* _resize_arrays(new_capacity): the arrays grow by free slots, up to
   absolute_max_agents *)
Resized(new_capacity) == Max(capacity, Min(new_capacity, env_config.absolute_max_agents))
Grown(s, n, v) == s \o [k \in 1 .. n - Len(s) |-> v]

handle_reproduction ==
  /\ ManagerPhase("population.reproduction", "feeding.plankton")
  /\ LET frightened == {i \in Idx : /\ CanReproduce(i) /\ threatened_mask[i]
                                    /\ Get(ConfigOf(i), "reproduction_fear_debuff", 100) < 100}
         fail == [i \in Idx |-> IF alive_mask[i]
                                THEN 100 - Get(ConfigOf(i), "reproduction_fear_debuff", 100)
                                ELSE 0]
     IN  \E failed \in Rolled(frightened, fail) :
           LET repro == {i \in Idx : /\ CanReproduce(i) /\ i \notin failed
                                     /\ "reproduction_cooldown_period" \in DOMAIN ConfigOf(i)
                                          => cooldowns[i] = 0}
               reproducing_indices == Where(repro)
               empty_slots_indices == Where({i \in Idx : ~alive_mask[i]})
               num_offspring == Len(reproducing_indices)
               available_slots == Len(empty_slots_indices)
               resize == num_offspring > available_slots
               n == IF resize THEN Resized((capacity * 3) \div 2 + num_offspring)
                    ELSE capacity
               num_to_birth == Min(num_offspring, available_slots)
               parents == SubSeq(reproducing_indices, 1, num_to_birth)
               slots == SubSeq(empty_slots_indices, 1, num_to_birth)
               IsParent(i) == \E k \in 1 .. num_to_birth : parents[k] = i
               IsSlot(i) == \E k \in 1 .. num_to_birth : slots[k] = i
               ParentOf(i) == parents[CHOOSE k \in 1 .. num_to_birth : slots[k] = i]
           IN  \E vectors \in [{i \in Idx : IsSlot(i)} -> RandomVectors] :
                 /\ \A i \in DOMAIN vectors :
                      vectors[i] \in SearchVectors(species_ids[ParentOf(i)])
                 /\ energies' = Grown(EnergiesAfterBirth(parents, slots), n, DEPOSITED)
                 /\ cooldowns' =
                      Grown([i \in Idx |->
                               IF IsParent(i)
                                  /\ "reproduction_cooldown_period" \in DOMAIN ConfigOf(i)
                               THEN ConfigOf(i).reproduction_cooldown_period
                               ELSE IF IsSlot(i) THEN 0 ELSE cooldowns[i]], n, 0)
                 /\ alive_mask' = Grown([i \in Idx |-> alive_mask[i] \/ IsSlot(i)], n, FALSE)
                 /\ positions' = Grown([i \in Idx |-> IF IsSlot(i) THEN positions[ParentOf(i)]
                                                      ELSE positions[i]], n, <<0, 0, 0>>)
                 /\ species_ids' = Grown([i \in Idx |-> IF IsSlot(i) THEN species_ids[ParentOf(i)]
                                                        ELSE species_ids[i]], n, 0)
                 /\ ages' = Grown([i \in Idx |-> IF IsSlot(i) THEN 0 ELSE ages[i]], n, 0)
                 /\ satiation_timers' = Grown([i \in Idx |-> IF IsSlot(i) THEN 0
                                                             ELSE satiation_timers[i]], n, 0)
                 /\ targets' = Grown([i \in Idx |-> IF IsSlot(i) THEN -1 ELSE targets[i]], n, -1)
                 /\ search_vectors' = Grown([i \in Idx |-> IF IsSlot(i) THEN vectors[i]
                                                           ELSE search_vectors[i]],
                                            n, <<0, 0, 0>>)
                 /\ threatened_mask' = Grown(threatened_mask, n, FALSE)
                 /\ flee_vectors' = Grown(flee_vectors, n, <<0, 0, 0>>)
                 /\ capacity' = n
                 /\ num_agents' = num_agents + num_to_birth
                 /\ draw' = [eligible |-> repro, parents |-> parents, slots |-> slots,
                             resize |-> resize]
  /\ prev' = Snapshot
  /\ UNCHANGED <<plankton, marine_snow, nutrient_map, disease_risk_map, current_event,
                 event_timer, owed>>

(* ---------------- src/simulation/systems/feeding_system.py ---------------- *)
(* _eat_plankton: the live unsatiated zooplankton, turtles and fish *)
plankton_eater_mask ==
  {i \in Idx : /\ alive_mask[i] /\ satiation_timers[i] = 0
               /\ species_ids[i] \in {manager_SPECIES_ID.Zooplankton,
                                      manager_SPECIES_ID.SeaTurtle,
                                      manager_SPECIES_ID.SmallFish}}

(* np.where(is_adult_mask)[0][is_scarce_mask]: the adult fish of the eaters that
   have fewer zooplankton than prey_scarcity_threshold within their vision
   radius (none when no zooplankton is alive), each as its position among the
   FISH of the eaters *)
scarce_fish_indices_local(eaters) ==
  LET fish_config == manager_fauna_configs.SmallFish
      fish == {i \in eaters : species_ids[i] = manager_SPECIES_ID.SmallFish}
      zoo == LiveOf("Zooplankton")
      r == Get(fish_config, "vision_radius", 20)
      nearby(i) == Cardinality({z \in zoo : Dist2(positions[z], positions[i]) <= r * r})
      is_scarce == {i \in fish : /\ ages[i] >= Get(fish_config, "maturity_age", 0)
                                 /\ zoo # {}
                                 /\ nearby(i) < Get(fish_config, "prey_scarcity_threshold", 5)}
  IN  {Cardinality({j \in fish : j < i}) : i \in is_scarce}

(* the configuration whose eating_rate, energy_conversion_factor and
   plankton_satiation_period are written at the position of eater i in
   eating_rates, conversion_factors and satiation_periods: the arrays start as
   zeros, the herbivores are written first, the juvenile fish next, and last the
   positions scarce_fish_indices_local, which index the arrays of ALL eaters *)
EaterConfig(eaters, i) ==
  LET fish_config == manager_fauna_configs.SmallFish
  IN  IF Cardinality({j \in eaters : j < i}) \in scarce_fish_indices_local(eaters)
      THEN fish_config
      ELSE IF species_ids[i] # manager_SPECIES_ID.SmallFish THEN ConfigOf(i)
      ELSE IF ages[i] < Get(fish_config, "maturity_age", 0) THEN fish_config
      ELSE [eating_rate |-> 0, energy_conversion_factor |-> 0,
            plankton_satiation_period |-> 0]

(* the rate of an eater before the scaling of its cell *)
EatingRate(eaters, i) == Get(EaterConfig(eaters, i), "eating_rate", 100)

(* every eater of the cell is served in full *)
EatenInFull(total_demand, plankton_in_cell) == total_demand

(* eaten_per_cell = np.minimum(total_demand_per_cell, plankton_in_cells) *)
EatenPerCell(total_demand, plankton_in_cell) == Min(total_demand, plankton_in_cell)

eat_plankton ==
  /\ ManagerPhase("feeding.plankton", "feeding.scavenge")
  /\ LET eaters == plankton_eater_mask
         low_plankton_threshold == Get(env_config, "low_plankton_threshold", 100)
         eating_rates ==
           [i \in Idx |->
              IF i \notin eaters THEN 0
              ELSE IF plankton[positions[i]] < low_plankton_threshold
                   THEN (EatingRate(eaters, i) * plankton[positions[i]])
                          \div low_plankton_threshold
                   ELSE EatingRate(eaters, i)]
         In(c) == {i \in eaters : positions[i] = c}
         total_demand == [c \in Cells |-> SumOf(eating_rates, In(c))]
         eaten == [c \in Cells |-> EatenPerCell(total_demand[c], plankton[c])]
         amount_to_eat ==
           [i \in Idx |->
              IF i \notin eaters \/ total_demand[positions[i]] = 0 THEN 0
              ELSE (eating_rates[i] * eaten[positions[i]]) \div total_demand[positions[i]]]
     IN  /\ plankton' = [c \in Cells |-> plankton[c] - SumOf(amount_to_eat, In(c))]
         /\ energies' =
              [i \in Idx |->
                 IF i \in eaters
                 THEN DAddInt(energies[i],
                              EnergyGain(amount_to_eat[i],
                                         Get(EaterConfig(eaters, i),
                                             "energy_conversion_factor", 1)) + 4)
                 ELSE energies[i]]
         /\ satiation_timers' =
              [i \in Idx |-> IF amount_to_eat[i] > 0
                             THEN Get(EaterConfig(eaters, i), "plankton_satiation_period", 5)
                             ELSE satiation_timers[i]]
         /\ draw' = [eaters |-> eaters, amount_to_eat |-> amount_to_eat,
                     eating_rates |-> eating_rates,
                     conversion_factors |->
                       [i \in Idx |-> IF i \in eaters
                                      THEN Get(EaterConfig(eaters, i),
                                               "energy_conversion_factor", 1)
                                      ELSE 0]]
  /\ prev' = Snapshot
  /\ UNCHANGED <<positions, species_ids, alive_mask, cooldowns, ages, targets, marine_snow,
                 nutrient_map, disease_risk_map, current_event, event_timer, capacity,
                 num_agents, threatened_mask, flee_vectors, search_vectors, owed>>

(* _handle_scavenging: the move of _handle_scavenging of the manager, and the
   snow is read and written at the clipped cell *)
handle_scavenging ==
  /\ ManagerPhase("feeding.scavenge", "feeding.predation")
  /\ LET crabs == LiveOf("Crab")
         config == manager_fauna_configs.Crab
         moved == [i \in Idx |-> IF i \in crabs THEN ScavengeMove(marine_snow, positions[i])
                                 ELSE positions[i]]
         amount_to_eat(i) == Min(marine_snow[ClipCell(moved[i])], config.eating_rate)
     IN  /\ positions' = moved
         /\ marine_snow' = [c \in Cells |->
                              IF \E i \in crabs : ClipCell(moved[i]) = c
                              THEN marine_snow[c] - Min(marine_snow[c], config.eating_rate)
                              ELSE marine_snow[c]]
         /\ energies' = [i \in Idx |->
                           IF i \in crabs
                           THEN DAddInt(energies[i],
                                        EnergyGain(amount_to_eat(i),
                                                   config.energy_conversion_factor))
                           ELSE energies[i]]
  /\ draw' = [none |-> TRUE]
  /\ prev' = Snapshot
  /\ UNCHANGED <<species_ids, alive_mask, cooldowns, ages, satiation_timers, targets,
                 plankton, nutrient_map, disease_risk_map, current_event, event_timer,
                 capacity, num_agents, threatened_mask, flee_vectors, search_vectors, owed>>

(* 100 * exp(-x / 100), to the percent, at the steps of a table *)
ExpNegPct(x) ==
  IF x <= 0 THEN 100 ELSE IF x <= 5 THEN 95 ELSE IF x <= 10 THEN 90 ELSE IF x <= 20 THEN 82
  ELSE IF x <= 32 THEN 73 ELSE IF x <= 50 THEN 61 ELSE IF x <= 75 THEN 47
  ELSE IF x <= 100 THEN 37 ELSE IF x <= 150 THEN 22 ELSE IF x <= 200 THEN 14
  ELSE IF x <= 300 THEN 5 ELSE 1

(* prey_sizes * dynamic_efficiency in tenths of energy; id_to_size_map is an
   array of integers, so the size it holds is the configured size truncated *)
EnergyTransfer(config, prey_id) ==
  LET name == CHOOSE n \in DOMAIN manager_SPECIES_ID : manager_SPECIES_ID[n] = prey_id
      prey_size == manager_fauna_configs[name].size \div 1000
      max_efficiency == Get(config, "max_energy_transfer_efficiency", 80)
      optimal_size == Get(config, "optimal_prey_size", 5000)
      tolerance == Get(config, "prey_size_tolerance", 5000)
      size_diff == prey_size * 1000 - optimal_size
      dynamic_efficiency ==
        (max_efficiency * ExpNegPct((size_diff * size_diff * 100)
                                      \div (2 * tolerance * tolerance))) \div 100
  IN  (prey_size * 10 * dynamic_efficiency) \div 100

(* the predators and the prey of one entry of the diet table, in the arrays st *)
PredatorsOf(st, entry) ==
  {i \in Idx : /\ species_ids[i] = manager_SPECIES_ID[entry.predator]
               /\ st.alive_mask[i] /\ st.satiation_timers[i] = 0}

(* the prey of one entry without the exclusion of the juveniles *)
PreyOfAnyAge(st, entry) ==
  {i \in Idx : /\ st.alive_mask[i]
               /\ \E name \in entry.prey : species_ids[i] = manager_SPECIES_ID[name]}

PreyOf(st, entry) ==
  {i \in Idx :
     /\ st.alive_mask[i]
     /\ \E name \in entry.prey :
          /\ species_ids[i] = manager_SPECIES_ID[name]
          /\ ages[i] >= Get(manager_fauna_configs[name], "maturity_age", 0)}

InRange(h, p, radius) == Dist2(positions[h], positions[p]) < radius * radius

(* the chance of a hunt without the refuge of the prey *)
HuntChanceInTheOpen(config, h, p) ==
  LET maturity_age == Get(config, "maturity_age", 0)
      hunt_chance == Get(config, "hunt_success_chance", 100)
  IN  IF maturity_age > 0 /\ ages[h] < maturity_age
      THEN (hunt_chance * Get(config, "juvenile_hunt_modifier", 50)) \div 100
      ELSE hunt_chance

(* final_hunt_chances: the juvenile modifier of the hunter, then the refuge of
   the prey *)
FinalHuntChance(config, h, p) ==
  LET maturity_age == Get(config, "maturity_age", 0)
      hunt_chance == Get(config, "hunt_success_chance", 100)
      juvenile == IF maturity_age > 0 /\ ages[h] < maturity_age
                  THEN (hunt_chance * Get(config, "juvenile_hunt_modifier", 50)) \div 100
                  ELSE hunt_chance
  IN  IF refuge_map[positions[p]]
      THEN (juvenile * Get(env_config, "refuge_hunt_debuff", 50)) \div 100
      ELSE juvenile

(* what the tree and the generator can return for one entry: for every predator a
   nearest prey (any of the equidistant ones) and a draw *)
HuntDraws(st, entry) ==
  LET predators == PredatorsOf(st, entry)
      prey == PreyOf(st, entry)
      config == manager_fauna_configs[entry.predator]
  IN  IF predators = {} \/ prey = {}
      THEN {[nearest |-> <<>>, success |-> {}]}
      ELSE {[nearest |-> t, success |-> s] :
              <<t, s>> \in
                {ts \in [predators -> prey] \X SUBSET predators :
                   /\ \A h \in predators : \A q \in prey :
                        Dist2(positions[h], positions[ts[1][h]])
                          <= Dist2(positions[h], positions[q])
                   /\ \A h \in predators :
                        (h \in ts[2]) \in
                          (IF InRange(h, ts[1][h], config.predation_range)
                           THEN Bernoulli(FinalHuntChance(config, h, ts[1][h]))
                           ELSE {FALSE})}}

(* np.unique(..., return_index=True): for every prey struck with success, the
   last of its hunters in index order *)
LastSuccessfulHunters(nearest, success) ==
  {h \in success : \A g \in success : nearest[g] = nearest[h] => g <= h}

(* np.unique(..., return_index=True): for every prey struck with success, the
   first of its hunters in index order *)
TrulySuccessfulHunters(nearest, success) ==
  {h \in success : \A g \in success : nearest[g] = nearest[h] => h <= g}

(* the arrays after one entry of the diet table *)
Hunt(st, entry, d) ==
  LET config == manager_fauna_configs[entry.predator]
      winners == TrulySuccessfulHunters(d.nearest, d.success)
      killed == {d.nearest[h] : h \in d.success}
  IN  [alive_mask |-> [i \in Idx |-> st.alive_mask[i] /\ i \notin killed],
       targets |-> [i \in Idx |->
                      IF i \in DOMAIN d.nearest /\ InRange(i, d.nearest[i], config.vision_radius)
                      THEN d.nearest[i] ELSE st.targets[i]],
       energies |-> [i \in Idx |->
                       IF i \in winners
                       THEN DAddInt(st.energies[i],
                                    EnergyTransfer(config, species_ids[d.nearest[i]]))
                       ELSE st.energies[i]],
       satiation_timers |-> [i \in Idx |-> IF i \in winners THEN config.satiation_period
                                           ELSE st.satiation_timers[i]]]

handle_all_predation ==
  /\ ManagerPhase("feeding.predation", "movement.update")
  /\ IF is_bootstrap
     THEN /\ targets' = [i \in Idx |-> -1]
          /\ draw' = [hunts |-> <<>>]
          /\ UNCHANGED <<alive_mask, energies, satiation_timers, owed>>
     ELSE LET st0 == [alive_mask |-> alive_mask, targets |-> targets,
                      energies |-> energies, satiation_timers |-> satiation_timers]
          IN  \E d1 \in HuntDraws(st0, diet_config[1]) :
                LET st1 == Hunt(st0, diet_config[1], d1)
                IN  \E d2 \in HuntDraws(st1, diet_config[2]) :
                      LET st2 == Hunt(st1, diet_config[2], d2)
                      IN  /\ alive_mask' = st2.alive_mask
                          /\ targets' = st2.targets
                          /\ energies' = st2.energies
                          /\ satiation_timers' = st2.satiation_timers
                          /\ owed' = OwedAfter(st2.alive_mask)
                          /\ draw' = [hunts |-> <<d1, d2>>]
  /\ prev' = Snapshot
  /\ UNCHANGED <<positions, species_ids, cooldowns, ages, plankton, marine_snow,
                 nutrient_map, disease_risk_map, current_event, event_timer, capacity,
                 num_agents, threatened_mask, flee_vectors, search_vectors>>

(* ---------------- src/simulation/systems/movement_system.py ---------------- *)
IsPredator(i) == \E k \in 1 .. Len(diet_config) :
                   species_ids[i] = manager_SPECIES_ID[diet_config[k].predator]

IsHungry(i) ==
  /\ IsPredator(i)
  /\ LET config == ConfigOf(i)
     IN  IF "hunger_threshold" \in DOMAIN config
         THEN DLtInt(energies[i], config.hunger_threshold)
         ELSE DLtInt(DAdd(energies[i], energies[i]), config.reproduction_threshold)

(* x %= width, y %= height, z unclipped *)
BoundariesUnclipped(p) == <<p[1] % width, p[2] % height, p[3]>>

(* x %= width, y %= height, z = clip(z, 0, depth - 1) *)
Boundaries(p) == <<p[1] % width, p[2] % height, Clip(p[3], 0, depth - 1)>>

(* the way an agent moves: the later assignment to movement_deltas wins. A
   searching agent keeps its search vector or, one time in ten, draws a new one *)
MovementMode(i) ==
  LET has_target == targets[i] # -1 /\ IsPredator(i) /\ alive_mask[i]
      searching == IsHungry(i) /\ ~has_target /\ alive_mask[i]
  IN  IF searching THEN "search"
      ELSE IF has_target THEN (IF targets[i] <= Len(positions) THEN "chase"
                               ELSE IF threatened_mask[i] THEN "flee" ELSE "none")
      ELSE IF threatened_mask[i] THEN "flee"
      ELSE IF alive_mask[i] THEN "wander" ELSE "none"

update_positions ==
  /\ ManagerPhase("movement.update", "store.cleanup")
  /\ LET mode == [i \in Idx |-> MovementMode(i)]
         searching == {i \in Idx : mode[i] = "search"}
         random == {i \in Idx : mode[i] = "wander"}
     IN  \E vectors \in [searching -> RandomVectors], deltas \in [random -> RandomVectors] :
           /\ search_vectors' = [i \in Idx |-> IF i \in searching THEN vectors[i]
                                               ELSE search_vectors[i]]
           /\ positions' =
                [i \in Idx |->
                   Boundaries(AddVec(positions[i],
                                     IF mode[i] = "search" THEN vectors[i]
                                     ELSE IF mode[i] = "chase"
                                          THEN SignVec(positions[targets[i]], positions[i])
                                     ELSE IF mode[i] = "flee" THEN flee_vectors[i]
                                     ELSE IF mode[i] = "wander" THEN deltas[i]
                                     ELSE <<0, 0, 0>>))]
           /\ draw' = [mode |-> mode]
  /\ prev' = Snapshot
  /\ UNCHANGED <<energies, species_ids, alive_mask, cooldowns, ages, satiation_timers,
                 targets, plankton, marine_snow, nutrient_map, disease_risk_map,
                 current_event, event_timer, capacity, num_agents, threatened_mask,
                 flee_vectors, owed>>

(* ---------------- the agent store: cleanup ---------------- *)
(* deposition on death: every slot that is not alive and whose energy is not the
   mark of a deposited slot deposits the size of its species at its cell *)
ToDeposit == {i \in Idx : ~alive_mask[i] /\ energies[i] # DEPOSITED}

(* compaction: the live entries first, in index order, then free slots *)
Compacted(s, free) == Grown(BoolIndex(s, alive_mask), Len(s), free)

store_cleanup ==
  /\ pc = "store.cleanup"
  /\ pc' = IF tick + 1 < env_config.simulation_ticks THEN "environment.update" ELSE "finished"
  /\ tick' = tick + 1
  /\ phases_done' = Append(phases_done, "store.cleanup")
  /\ prev' = Snapshot
  /\ marine_snow' =
       [c \in Cells |->
          marine_snow[c] + SumOf([i \in Idx |-> IF species_ids[i] = 0 THEN 0
                                                ELSE ConfigOf(i).size],
                                 {i \in ToDeposit : positions[i] = c})]
  /\ LET marked == [i \in Idx |-> IF i \in ToDeposit THEN DEPOSITED ELSE energies[i]]
         remapped == [i \in Idx |->
                        IF targets[i] = -1 \/ ~alive_mask[targets[i]] THEN -1
                        ELSE Cardinality({k \in 1 .. targets[i] : alive_mask[k]})]
     IN  IF (tick + 1) % env_config.cleanup_interval = 0
         THEN /\ energies' = Compacted(marked, DEPOSITED)
              /\ positions' = Compacted(positions, <<0, 0, 0>>)
              /\ species_ids' = Compacted(species_ids, 0)
              /\ cooldowns' = Compacted(cooldowns, 0)
              /\ ages' = Compacted(ages, 0)
              /\ satiation_timers' = Compacted(satiation_timers, 0)
              /\ targets' = Compacted(remapped, -1)
              /\ threatened_mask' = Compacted(threatened_mask, FALSE)
              /\ flee_vectors' = Compacted(flee_vectors, <<0, 0, 0>>)
              /\ search_vectors' = Compacted(search_vectors, <<0, 0, 0>>)
              /\ alive_mask' = Compacted(alive_mask, FALSE)
         ELSE /\ energies' = marked
              /\ UNCHANGED <<positions, species_ids, cooldowns, ages, satiation_timers,
                             targets, threatened_mask, flee_vectors, search_vectors,
                             alive_mask>>
  /\ num_agents' = Cardinality({i \in Idx : alive_mask[i]})
  /\ UNCHANGED <<history, tick_log, first_history, width, height, depth, configs, loader, refuge_map,
                 plankton, nutrient_map, disease_risk_map, current_event, event_timer,
                 capacity, owed, draw>>

(* ---------------- construction of the manager ---------------- *)
InitialAgents == <<"Zooplankton", "SmallFish", "SmallFish", "Crab">>

(* a configuration file with some of its keys set to other values *)
Override(base, over) ==
  [k \in DOMAIN base \cup DOMAIN over |-> IF k \in DOMAIN over THEN over[k] ELSE base[k]]

(* the manager constructed on one of the lattices sc.grids with the agents
   sc.agents, from the configuration files with the keys of sc.env and sc.fauna
   set; the plankton of a cell is one of the densities sc.food, and the marine
   snow that earlier deaths left in a cell one of the amounts sc.snow (none
   when the scenario names no amounts) *)
InitWith(sc) ==
  /\ \E g \in sc.grids : width = g[1] /\ height = g[2] /\ depth = g[3]
  /\ configs = [env |-> Override(sim_config, sc.env),
                fauna |-> [n \in DOMAIN fauna_config_json |->
                             Override(fauna_config_json[n], Get(sc.fauna, n, <<>>))]]
  /\ loader = [raw |-> <<>>, outcome |-> [kind |-> "none"]]
  /\ pc = "environment.update"
  /\ tick = 0
  /\ history = <<>>
  /\ capacity = env_config.initial_agent_capacity
  /\ num_agents = Len(sc.agents)
  /\ species_ids = Grown([k \in 1 .. Len(sc.agents) |-> manager_SPECIES_ID[sc.agents[k]]],
                         capacity, 0)
  /\ \E p \in [1 .. Len(sc.agents) -> Cells] : positions = Grown(p, capacity, <<0, 0, 0>>)
  /\ energies = Grown([k \in 1 .. Len(sc.agents) |->
                         DInt(manager_fauna_configs[sc.agents[k]].initial_energy)],
                      capacity, DEPOSITED)
  /\ alive_mask = Grown([k \in 1 .. Len(sc.agents) |-> TRUE], capacity, FALSE)
  /\ cooldowns = [k \in 1 .. capacity |-> 0]
  /\ ages = [k \in 1 .. capacity |-> 0]
  /\ satiation_timers = [k \in 1 .. capacity |-> 0]
  /\ targets = [k \in 1 .. capacity |-> -1]
  /\ threatened_mask = [k \in 1 .. capacity |-> FALSE]
  /\ flee_vectors = [k \in 1 .. capacity |-> <<0, 0, 0>>]
  /\ search_vectors = [k \in 1 .. capacity |-> <<0, 0, 0>>]
  /\ plankton \in [Cells -> sc.food]
  /\ marine_snow \in [Cells -> Get(sc, "snow", {0})]
  /\ nutrient_map = base_nutrient_map
  /\ disease_risk_map = [c \in Cells |-> 10]
  /\ current_event = "none"
  /\ event_timer = 0
  /\ \E x \in 0 .. width - 1, y \in 0 .. height - 1 : refuge_map = RefugeMapOf(x, y)
  /\ phases_done = <<>>
  /\ prev = NoSnapshot
  /\ draw = [none |-> TRUE]
  /\ tick_log = <<>>
  /\ owed = 0
  /\ first_history = <<>>

InitSys == InitWith([grids |-> Grids, agents |-> InitialAgents, env |-> <<>>, fauna |-> <<>>,
                     food |-> {sim_config.initial_food_density}])

NextSys ==
  \/ manager_update
  \/ update_threats
  \/ apply_metabolism_and_aging
  \/ handle_overcrowding
  \/ handle_disease
  \/ handle_deaths
  \/ handle_reproduction
  \/ eat_plankton
  \/ handle_scavenging
  \/ handle_all_predation
  \/ update_positions
  \/ store_cleanup

SpecSys == InitSys /\ [][NextSys]_vars

(* ---------------- runs under other configurations ---------------- *)
(* prey that a refuge protects entirely, hunted from the first tick by fish
   that plankton does not satiate, juvenile in the first tick and adult in the
   second; one tick of zooplankton alone, without starvation and disease; and
   one tick of a crab on lattices two layers deep and two or three cells wide, where
   every cell is either free of snow or holds the remains of one zooplankton;
   and a fish that has the energy to reproduce from the first tick, a bootstrap
   tick, and is still juvenile in the second; and a seal with a fish that is
   adult from the first tick and a turtle that is adult from the second; and a
   crab that starves in the tick in which a zooplankton reaches its lifespan;
   and two crabs in a column of cells that each hold the remains of one
   zooplankton *)
Scenarios ==
  {[grids |-> Grids, agents |-> <<"Zooplankton", "SmallFish", "SmallFish">>,
    env |-> [refuge_hunt_debuff |-> 0, bootstrap_period |-> 0],
    food |-> {sim_config.initial_food_density},
    fauna |-> [SmallFish |-> [hunt_success_chance |-> c, maturity_age |-> 2,
                            plankton_satiation_period |-> 0]]] :
     c \in {50, 100}}
  \cup
  {[grids |-> Grids,
    agents |-> <<"Zooplankton", "Zooplankton", "Zooplankton", "Zooplankton">>,
    env |-> [initial_agent_capacity |-> 8, simulation_ticks |-> 1],
    food |-> {sim_config.initial_food_density},
    fauna |-> [Zooplankton |-> [starvation_chance |-> 0, disease_chance |-> 0]]]}
  \cup
  {[grids |-> {<<EnvWidth, 1, MaxDepth>>, <<MaxWidth, 1, MaxDepth>>}, agents |-> <<"Crab">>,
    env |-> [initial_agent_capacity |-> 1, simulation_ticks |-> 1],
    food |-> {sim_config.initial_food_density},
    snow |-> {0, fauna_config_json.Zooplankton.size},
    fauna |-> <<>>]}
  \cup
  {[grids |-> {<<1, 1, 1>>}, agents |-> <<"SmallFish">>,
    env |-> [initial_agent_capacity |-> 2],
    food |-> {sim_config.initial_food_density},
    fauna |-> [SmallFish |-> [reproduction_threshold |-> 20, maturity_age |-> 2,
                            carrying_capacity_threshold |-> 3]]]}
  \cup
  {[grids |-> {<<1, 1, MaxDepth>>}, agents |-> <<"Seal", "SmallFish", "SeaTurtle">>,
    env |-> [initial_agent_capacity |-> 3, bootstrap_period |-> 0],
    food |-> {sim_config.initial_food_density},
    fauna |-> <<>>]}
  \cup
  {[grids |-> {<<1, 1, 1>>}, agents |-> <<"Crab", "Zooplankton", "SmallFish">>,
    env |-> [initial_agent_capacity |-> 3, bootstrap_period |-> 0],
    food |-> {sim_config.initial_food_density},
    fauna |-> [Zooplankton |-> [max_lifespan |-> 2]]]}
  \cup
  {[grids |-> {<<1, 1, MaxDepth>>}, agents |-> <<"Crab", "Crab">>,
    env |-> [initial_agent_capacity |-> 2, simulation_ticks |-> 1],
    food |-> {sim_config.initial_food_density},
    snow |-> {fauna_config_json.Zooplankton.size},
    fauna |-> <<>>]}

InitScenarios == \E sc \in Scenarios : InitWith(sc)

SpecScenarios == InitScenarios /\ [][NextSys]_vars

(* ---------------- the environment alone ---------------- *)
(* an environment without agents, on a lattice long enough for a cell to have
   two distinct neighbours along an axis, with plankton grazed in some cells;
   events of every chance and of no, a short and a long duration *)
InitEnv ==
  \E chance \in {0, 50, 100}, duration \in {0, 1, 3} :
    InitWith([grids |-> {<<1, 1, EnvDepth>>, <<EnvWidth, 1, 1>>}, agents |-> <<>>,
              env |-> [event_chance |-> chance, event_duration |-> duration,
                       initial_agent_capacity |-> 1],
              fauna |-> <<>>, food |-> {200, sim_config.initial_food_density}])

(* one call of Environment.update *)
environment_update ==
  /\ pc = "environment.update"
  /\ tick < EnvUpdates
  /\ EnvironmentUpdate
  /\ tick' = tick + 1
  /\ UNCHANGED <<pc, history, tick_log, first_history, width, height, depth, configs, loader, refuge_map,
                 agentVars, systemsVars, phases_done, prev>>

(* one call of deposit_marine_snow(x, y, z, amount) on the environment as it
   was constructed, the amount being that of the environment test or the size
   of one zooplankton *)
deposit_marine_snow ==
  /\ pc = "environment.update"
  /\ tick = 0
  /\ "deposit" \notin DOMAIN draw
  /\ \E c \in Cells, amount \in {1000, 10000} :
       /\ marine_snow' = DepositMarineSnow(marine_snow, c, amount)
       /\ draw' = [deposit |-> [cell |-> c, amount |-> amount]]
  /\ UNCHANGED <<pc, tick, history, tick_log, first_history, width, height, depth, configs,
                 loader, refuge_map, agentVars, phases_done, prev, plankton, nutrient_map,
                 disease_risk_map, current_event, event_timer, capacity, num_agents,
                 threatened_mask, flee_vectors, search_vectors, owed>>

SpecEnv == InitEnv /\ [][environment_update \/ deposit_marine_snow]_vars

(* ---------------- src/utils/config_loader.py ---------------- *)
(* the contents of fauna_config.json after the archetypes are merged in: the
   definitions of two species and of an archetype; a definition may inherit
   from any of them, from itself or from a name that has no definition *)
RawConfigs ==
  LET parents == {"", "Fish", "Crab", "_swimmer", "_missing"}
      Definition(p, size) == IF p = "" THEN [size |-> size]
                             ELSE [inherit_from |-> p, size |-> size]
  IN  {[Fish |-> Definition(pf, 2), Crab |-> Definition(pc_, 1), _swimmer |-> d] :
         pf \in parents, pc_ \in parents,
         d \in {Definition(p, 3) : p \in parents}
                 \cup {[inherit_from |-> p, speed |-> 5] : p \in parents \ {""}}}

(* name.startswith('_') *)
StartsWithUnderscore(name) == name \in {"_swimmer", "_missing"}

(* _resolve_inheritance: what the call returns or raises, and resolved_configs
   after it; depth_left is the number of frames the interpreter still allows *)
RECURSIVE resolve_inheritance(_, _, _, _)
resolve_inheritance(species_name, all_definitions, resolved_configs, depth_left) ==
  IF depth_left = 0
  THEN [raised |-> "RecursionError", key |-> species_name, resolved |-> resolved_configs]
  ELSE IF species_name \in DOMAIN resolved_configs
  THEN [raised |-> "", value |-> resolved_configs[species_name], resolved |-> resolved_configs]
  ELSE IF species_name \notin DOMAIN all_definitions
  THEN [raised |-> "KeyError", key |-> species_name, resolved |-> resolved_configs]
  ELSE LET config == all_definitions[species_name]
           base == IF "inherit_from" \in DOMAIN config
                   THEN resolve_inheritance(config.inherit_from, all_definitions,
                                            resolved_configs, depth_left - 1)
                   ELSE [raised |-> "", value |-> <<>>, resolved |-> resolved_configs]
       IN  IF base.raised # "" THEN base
           ELSE LET final_config == Override(base.value, config)
                IN  [raised |-> "", value |-> final_config,
                     resolved |-> Override(base.resolved,
                                           [n \in {species_name} |-> final_config])]

(* the loop of load_fauna_config over the names of all_definitions *)
RECURSIVE ResolveAll(_, _, _)
ResolveAll(names, all_definitions, resolved_configs) ==
  IF names = <<>> THEN [raised |-> "", resolved |-> resolved_configs]
  ELSE IF StartsWithUnderscore(Head(names))
  THEN ResolveAll(Tail(names), all_definitions, resolved_configs)
  ELSE LET r == resolve_inheritance(Head(names), all_definitions, resolved_configs,
                                    RecursionLimit)
       IN  IF r.raised # "" THEN r
           ELSE ResolveAll(Tail(names), all_definitions, r.resolved)

(* load_fauna_config: a KeyError is printed and None is returned; an exception
   that no except clause names leaves the function *)
load_fauna_config ==
  /\ pc = "load_fauna_config"
  /\ pc' = "loaded"
  /\ LET r == ResolveAll(<<"Fish", "Crab", "_swimmer">>, loader.raw, <<>>)
     IN  loader' =
           [loader EXCEPT !.outcome =
              IF r.raised = "KeyError"
              THEN [kind |-> "returned", value |-> "None", printed |-> r.key]
              ELSE IF r.raised # ""
              THEN [kind |-> "raised", value |-> r.raised]
              ELSE [kind |-> "returned",
                    value |-> [n \in {m \in DOMAIN r.resolved : ~StartsWithUnderscore(m)}
                                 |-> r.resolved[n]]]]
  /\ UNCHANGED <<tick, history, tick_log, first_history, width, height, depth, configs,
                 refuge_map, agentVars, systemsVars, phases_done, prev, draw, plankton,
                 marine_snow, nutrient_map, disease_risk_map, current_event, event_timer>>

(* a configuration file on disk, before any manager is constructed *)
InitLoader ==
  /\ loader \in {[raw |-> raw, outcome |-> [kind |-> "none"]] : raw \in RawConfigs}
  /\ pc = "load_fauna_config"
  /\ configs = [env |-> sim_config, fauna |-> <<>>]
  /\ width = 1 /\ height = 1 /\ depth = 1
  /\ tick = 0
  /\ history = <<>> /\ tick_log = <<>> /\ first_history = <<>>
  /\ positions = <<>> /\ energies = <<>> /\ species_ids = <<>> /\ alive_mask = <<>>
  /\ cooldowns = <<>> /\ ages = <<>> /\ satiation_timers = <<>> /\ targets = <<>>
  /\ threatened_mask = <<>> /\ flee_vectors = <<>> /\ search_vectors = <<>>
  /\ capacity = 0 /\ num_agents = 0 /\ owed = 0
  /\ plankton = <<>> /\ marine_snow = <<>> /\ nutrient_map = <<>>
  /\ disease_risk_map = <<>> /\ refuge_map = <<>>
  /\ current_event = "none" /\ event_timer = 0
  /\ phases_done = <<>> /\ prev = NoSnapshot /\ draw = [none |-> TRUE]

SpecLoader == InitLoader /\ [][load_fauna_config]_vars

(* ======================= the claims ======================= *)

FeedingPhases == {"eat_plankton", "scavenging", "predation"}
MovementPhases == {"move_predators", "move_agents"}
Done(name) == \E k \in 1 .. Len(phases_done) : phases_done[k] = name

(* C1: in every tick the deaths and the reproduction of the tick run before every
   feeding step, and every feeding step runs before every position update. *)
C1_PhaseOrder ==
  /\ pc \in FeedingPhases => Done("deaths") /\ Done("reproduction")
  /\ pc \in MovementPhases => \A f \in FeedingPhases : Done(f)

(* C4: after cleanup has repacked the live agents, a target that referred to a
   live agent refers to the same agent at its new index, and a target that
   referred to a dead agent is -1. *)
NewIndex(mask, j) == Cardinality({k \in 1 .. j : mask[k]})

C4_TargetsRemapped ==
  (pc = "record" /\ prev # NoSnapshot) =>
    \A j \in 1 .. Len(prev.alive_mask) :
      (prev.alive_mask[j] /\ prev.targets[j] # -1) =>
        targets[NewIndex(prev.alive_mask, j)] =
          (IF prev.alive_mask[prev.targets[j]]
           THEN NewIndex(prev.alive_mask, prev.targets[j]) ELSE -1)

(* C6: at the end of every tick every cell's plankton lies in [0, 1]. *)
C6_PlanktonBounded ==
  pc = "record" => \A c \in Cells : 0 <= plankton[c] /\ plankton[c] <= 1000

(* C8: the run ends before the requested tick count only after a tick past the
   bootstrap period at whose end the zooplankton and the smallfish counts are
   both 0. *)
EndedEarly == pc = "done" /\ first_history = <<>> /\ Len(tick_log) < sim_config.simulation_ticks
LastCounts == tick_log[Len(tick_log)]
SomeCountZero(counts) == counts.zooplankton = 0 \/ counts.small_fish = 0 \/ counts.crab = 0

EntryOf(t, h, counts) ==
  /\ h.tick = t
  /\ h.zooplankton = counts.zooplankton
  /\ h.small_fish = counts.small_fish
  /\ h.crab = counts.crab

C7_SameHistory == (pc = "done" /\ first_history # <<>>) => history = first_history

(* the end of a tick of the scheduler: cleanup has run *)
EndOfTick == pc \in {"environment.update", "finished"} /\ phases_done # <<>>

(* C2: for every prey killed in a predation phase exactly one predator is
   credited (its energy is greater than before and its satiation timer is the
   satiation period of its species), it is the lowest-index predator among those
   whose strike on that prey succeeded, and every other predator whose strike on
   that prey succeeded keeps its energy and its satiation timer. *)
Strikes == UNION {{<<h, draw.hunts[k].nearest[h]>> : h \in draw.hunts[k].success} :
                    k \in 1 .. Len(draw.hunts)}
StrikersOn(k) == {h \in Idx : <<h, k>> \in Strikes}
KilledByPredation == {k \in Idx : prev.alive_mask[k] /\ ~alive_mask[k]}
Credited(h) == /\ DSub(prev.energies[h], energies[h])[1] < 0
               /\ satiation_timers[h] = ConfigOf(h).satiation_period

C2_ExclusiveKill ==
  pc = "movement.update" =>
    \A k \in KilledByPredation :
      /\ StrikersOn(k) # {}
      /\ Cardinality({h \in StrikersOn(k) : Credited(h)}) = 1
      /\ \A h \in StrikersOn(k) :
           IF \A g \in StrikersOn(k) : h <= g
           THEN Credited(h)
           ELSE /\ energies[h] = prev.energies[h]
                /\ satiation_timers[h] = prev.satiation_timers[h]

C2_Witness ==
  /\ pc = "movement.update"
  /\ \E k \in KilledByPredation : Cardinality(StrikersOn(k)) >= 2

(* C3: every agent whose alive flag is cleared deposits the size of its species
   exactly once, in the following cleanup: the marine snow a cleanup adds equals
   the sizes of the agents that died in the tick, whatever phases ran in
   between. *)
C3_DepositOncePerDeath ==
  EndOfTick => SumOf(marine_snow, Cells) - SumOf(prev.marine_snow, Cells) = owed

(* C5: at the end of every tick every live agent is inside the lattice. *)
C5_PositionsInside ==
  EndOfTick => \A i \in Idx : alive_mask[i] => InGrid(positions[i])

C5_Witness ==
  /\ EndOfTick
  /\ \A m \in {"flee", "chase", "search", "wander"} :
       \E i \in DOMAIN draw.mode : draw.mode[i] = m /\ prev.alive_mask[i]
  /\ \E i \in DOMAIN draw.mode :
       /\ prev.alive_mask[i]
       /\ prev.species_ids[i] = manager_SPECIES_ID.Crab

(* C10: after a reproduction phase that requests no resize, the live count has
   grown by at most the number of eligible parents, every eligible parent has
   exactly half the energy it had, and every offspring has the energy its parent
   has after the split. *)
LiveIn(mask) == Cardinality({i \in 1 .. Len(mask) : mask[i]})

C10_SplitEnergy ==
  (pc = "feeding.plankton" /\ ~draw.resize) =>
    /\ LiveIn(alive_mask) - LiveIn(prev.alive_mask) <= Cardinality(draw.eligible)
    /\ \A p \in draw.eligible :
         DSub(DAdd(energies[p], energies[p]), prev.energies[p])[1] = 0
    /\ \A k \in 1 .. Len(draw.slots) :
         /\ draw.parents[k] \in draw.eligible
         /\ alive_mask[draw.slots[k]]
         /\ energies[draw.slots[k]] = energies[draw.parents[k]]

C10_Witness ==
  /\ pc = "feeding.plankton"
  /\ ~draw.resize
  /\ Len(draw.slots) >= 1
  /\ LiveIn(alive_mask) = LiveIn(prev.alive_mask) + Cardinality(draw.eligible)

(* C11: offspring are dropped only at the hard ceiling: after every reproduction
   phase the number of births is the number of eligible parents, or the number
   of free slots of the grown store when the eligible parents are more. *)
C11_DroppedOnlyAtCeiling ==
  pc = "feeding.plankton" =>
    Len(draw.slots) = Min(Cardinality(draw.eligible), capacity - LiveIn(prev.alive_mask))

(* C12: in every tick with tick < bootstrap_period no step increments the age
   of an agent, and the predation phase kills no agent, credits no predator
   (energies and satiation timers are kept) and leaves every target at -1. *)
C12_BootstrapStability ==
  [][is_bootstrap =>
       /\ \A i \in Idx : ages'[i] <= ages[i]
       /\ pc = "feeding.predation" =>
            /\ alive_mask' = alive_mask
            /\ energies' = energies
            /\ satiation_timers' = satiation_timers
            /\ \A i \in Idx : targets'[i] = -1]_vars

C12_Witness ==
  /\ is_bootstrap
  /\ pc = "movement.update"
  /\ phases_done[Len(phases_done)] = "feeding.predation"
  /\ \E h \in LiveOf("SmallFish") : \E p \in LiveOf("Zooplankton") :
       InRange(h, p, manager_fauna_configs.SmallFish.predation_range)

(* C13: with refuge_hunt_debuff = 0 no prey whose cell is a refuge cell at the
   time of the predation phase is killed by predation, whatever the hunt chance
   and the age of its hunters and whatever the draws. *)
C13_RefugeInvariance ==
  (pc = "movement.update" /\ Get(env_config, "refuge_hunt_debuff", 50) = 0) =>
    \A k \in KilledByPredation : ~refuge_map[positions[k]]

C13_Witness ==
  /\ pc = "movement.update"
  /\ Get(env_config, "refuge_hunt_debuff", 50) = 0
  /\ manager_fauna_configs.SmallFish.hunt_success_chance = 100
  /\ \E k \in 1 .. Len(draw.hunts) : \E h \in DOMAIN draw.hunts[k].nearest :
       /\ refuge_map[positions[draw.hunts[k].nearest[h]]]
       /\ InRange(h, draw.hunts[k].nearest[h], manager_fauna_configs.SmallFish.predation_range)
       /\ ages[h] >= manager_fauna_configs.SmallFish.maturity_age

(* C14: the update of the environment in which the timer of an event reaches
   zero ends with the nutrients at their base values, the disease risk at 1 in
   every cell and no event. *)
C14_EventReverted ==
  [][(pc = "environment.update" /\ event_timer = 1) =>
       /\ nutrient_map' = base_nutrient_map
       /\ disease_risk_map' = [c \in Cells |-> 10]
       /\ current_event' = "none"]_vars

(* C15: in a run with zooplankton only, without starvation and without
   disease, the live zooplankton at the end of every tick are at most
   carrying_capacity_threshold * W * H * D. *)
C15_ZooplanktonBounded ==
  (/\ EndOfTick
   /\ \A i \in Idx : species_ids[i] \in {0, manager_SPECIES_ID.Zooplankton}
   /\ manager_fauna_configs.Zooplankton.starvation_chance = 0
   /\ manager_fauna_configs.Zooplankton.disease_chance = 0) =>
    Cardinality(LiveOf("Zooplankton"))
      <= manager_fauna_configs.Zooplankton.carrying_capacity_threshold
           * width * height * depth

(* C16: when the entry of a species in the fauna configuration inherits from a
   name that has no definition, load_fauna_config raises an error and returns
   no value to its caller. *)
Unresolvable == {n \in DOMAIN loader.raw :
                   /\ ~StartsWithUnderscore(n)
                   /\ "inherit_from" \in DOMAIN loader.raw[n]
                   /\ loader.raw[n].inherit_from \notin DOMAIN loader.raw}

C16_UnresolvableRaises ==
  (pc = "loaded" /\ Unresolvable # {}) => loader.outcome.kind = "raised"

(* C17: the diffusion of plankton is solid in z: the diffusion term of a cell
   of the layer z = 0 does not depend on the plankton of the layer z = D - 1: in
   the environment as an update leaves it, the term is the same when that layer
   holds no plankton. *)
WithoutLayer(p, z) == [c \in Cells |-> IF c[3] = z THEN 0 ELSE p[c]]

C17_SolidInDepth ==
  (pc = "environment.update" /\ tick > 0 /\ depth >= 3) =>
    \A c \in Cells :
      c[3] = 0 => Diffusion(plankton, c) = Diffusion(WithoutLayer(plankton, depth - 1), c)

(* C18: in the grazing phase, for every cell, each eater receives its rate
   times min(1, supply / demand) (to the thousandth), the plankton subtracted
   from the cell is exactly the total its eaters receive, that total is at most
   the plankton the cell held, and a cell without demand is left unchanged. *)
RateBefore(i) ==
  LET low == Get(env_config, "low_plankton_threshold", 100)
      supply == prev.plankton[positions[i]]
  IN  IF supply < low THEN (EatingRate(draw.eaters, i) * supply) \div low
      ELSE EatingRate(draw.eaters, i)

DemandBefore(c) == SumOf([i \in Idx |-> RateBefore(i)], {i \in draw.eaters : positions[i] = c})

C18_SupplyArbitration ==
  pc = "feeding.scavenge" =>
    /\ \A c \in Cells :
         LET received == SumOf(draw.amount_to_eat, {i \in draw.eaters : positions[i] = c})
         IN  /\ prev.plankton[c] - plankton[c] = received
             /\ received <= prev.plankton[c]
             /\ DemandBefore(c) = 0 => plankton[c] = prev.plankton[c]
    /\ \A i \in draw.eaters :
         LET demand == DemandBefore(positions[i])
             supply == prev.plankton[positions[i]]
             got == draw.amount_to_eat[i]
         IN  IF demand <= supply
             THEN got = RateBefore(i)
             ELSE /\ got * demand <= RateBefore(i) * supply
                  /\ RateBefore(i) * supply < (got + 1) * demand

C18_Witness ==
  /\ pc = "feeding.scavenge"
  /\ \E c \in Cells :
       /\ DemandBefore(c) > prev.plankton[c]
       /\ Cardinality({i \in draw.eaters : positions[i] = c}) >= 2
  /\ \E c \in Cells : DemandBefore(c) = 0 /\ prev.plankton[c] > 0

(* C19: in the grazing phase, whatever the mix and index order of the eaters,
   an adult SmallFish consumes plankton only if fewer live Zooplankton than
   prey_scarcity_threshold are within its vision_radius, and the eating rate
   and the conversion factor applied to every eater that eats are those of its
   own species. *)
NearbyZooplankton(i) ==
  LET r == Get(manager_fauna_configs.SmallFish, "vision_radius", 20)
  IN  Cardinality({z \in LiveOf("Zooplankton") :
                     Dist2(positions[z], positions[i]) <= r * r})

IsAdultFish(i) ==
  /\ species_ids[i] = manager_SPECIES_ID.SmallFish
  /\ ages[i] >= Get(manager_fauna_configs.SmallFish, "maturity_age", 0)

OwnRate(i) ==
  LET low == Get(env_config, "low_plankton_threshold", 100)
      supply == prev.plankton[positions[i]]
      rate == Get(ConfigOf(i), "eating_rate", 100)
  IN  IF supply < low THEN (rate * supply) \div low ELSE rate

C19_GrazingByOwnDiet ==
  pc = "feeding.scavenge" =>
    \A i \in draw.eaters :
      /\ (IsAdultFish(i) /\ draw.amount_to_eat[i] > 0) =>
           NearbyZooplankton(i) < Get(manager_fauna_configs.SmallFish,
                                      "prey_scarcity_threshold", 5)
      /\ draw.eating_rates[i] > 0 =>
           /\ draw.eating_rates[i] = OwnRate(i)
           /\ draw.conversion_factors[i] =
                Get(ConfigOf(i), "energy_conversion_factor", 1)

(* C20: movement modes are exclusive with flight first: in update_positions
   every agent whose threatened flag is set moves by exactly its flee vector
   (then the boundaries are applied), also when it is a predator with a target
   or a hungry predator without one. *)
C20_FleeFirst ==
  [][pc = "movement.update" =>
       \A i \in Idx :
         threatened_mask[i] =>
           positions'[i] = Boundaries(AddVec(positions[i], flee_vectors[i]))]_vars

(* C21: in the scavenging step a crab on the bottom layer ends in a cell of
   that layer whose marine snow (as it lay before the step) is the greatest of
   the 9 cells of its neighbourhood, also on the x and y edges of the lattice;
   a crab above the bottom only sinks one layer. *)
C21_BestNeighbour ==
  [][pc = "feeding.scavenge" =>
       \A i \in LiveOf("Crab") :
         IF positions[i][3] = depth - 1
         THEN /\ positions'[i][3] = depth - 1
              /\ \A k \in 1 .. 9 :
                   SnowAtOffset(marine_snow, positions[i], k) <= marine_snow[positions'[i]]
         ELSE positions'[i] = <<positions[i][1], positions[i][2], positions[i][3] + 1>>]_vars

(* C22: at no tick of a run does an agent of a species with maturity_age > 0
   become a parent in the reproduction phase while its age is below
   maturity_age. *)
C22_ParentsAreAdults ==
  pc = "feeding.plankton" =>
    \A k \in 1 .. Len(draw.parents) :
      LET i == draw.parents[k]
          maturity_age == Get(ConfigOf(i), "maturity_age", 0)
      IN  maturity_age > 0 => prev.ages[i] >= maturity_age

(* C23: every agent struck with success in the predation phase was, when the
   phase began, alive, of a species in the diet entry of the predator that
   struck it and, if its species has maturity_age > 0, of age >= maturity_age;
   the predator was alive with satiation timer 0; and no other agent dies in
   the phase. *)
C23_LawfulKills ==
  pc = "movement.update" =>
    /\ \A k \in KilledByPredation : StrikersOn(k) # {}
    /\ \A s \in Strikes :
         LET h == s[1]
             k == s[2]
             maturity_age == Get(ConfigOf(k), "maturity_age", 0)
         IN  /\ prev.alive_mask[k]
             /\ \E e \in 1 .. Len(diet_config) :
                  /\ species_ids[h] = manager_SPECIES_ID[diet_config[e].predator]
                  /\ \E name \in diet_config[e].prey :
                       species_ids[k] = manager_SPECIES_ID[name]
             /\ maturity_age > 0 => prev.ages[k] >= maturity_age
             /\ prev.alive_mask[h]
             /\ prev.satiation_timers[h] = 0
             /\ ~alive_mask[k]

(* a seal kills an adult fish next to a turtle that is still juvenile *)
C23_Witness ==
  /\ pc = "movement.update"
  /\ \E s \in Strikes :
       /\ species_ids[s[1]] = manager_SPECIES_ID.Seal
       /\ species_ids[s[2]] = manager_SPECIES_ID.SmallFish
       /\ \E t \in LiveOf("SeaTurtle") :
            /\ ages[t] < Get(ConfigOf(t), "maturity_age", 0)
            /\ positions[t] = positions[s[2]]

(* C24: after an amount A is deposited at a cell (x, y, z) with z < D-1 of a
   snow-free environment, one Environment.update leaves half of A at (x, y, z)
   and half of A at (x, y, z+1). *)
C24_HalfSinks ==
  [][(pc = "environment.update" /\ "deposit" \in DOMAIN draw
        /\ draw.deposit.cell[3] < depth - 1) =>
       LET c == draw.deposit.cell
           below == <<c[1], c[2], c[3] + 1>>
       IN  /\ 2 * marine_snow'[c] = draw.deposit.amount
           /\ 2 * marine_snow'[below] = draw.deposit.amount]_vars

(* C25: from the end of the deaths phase to the end of the tick, and so at the
   end of every tick, every live agent has energy > 0 and an age below the
   max_lifespan of its species: the deaths phase leaves alive no agent whose
   energy is <= 0 or whose age has reached max_lifespan, and reproduction and
   feeding bring no live agent's energy to <= 0. *)
AfterDeaths ==
  \/ pc \in {"population.reproduction", "feeding.plankton", "feeding.scavenge",
              "feeding.predation", "movement.update", "store.cleanup"}
  \/ EndOfTick

C25_LiveAgentsViable ==
  AfterDeaths =>
    \A i \in Idx :
      alive_mask[i] => /\ energies[i][1] > 0
                       /\ ages[i] < Get(ConfigOf(i), "max_lifespan", 99999)

(* a deaths phase removes a starved agent and an agent that has reached its
   lifespan and leaves another agent alive *)
C25_Witness ==
  /\ pc = "population.reproduction"
  /\ \E i \in draw.dead : energies[i][1] <= 0
  /\ \E j \in draw.dead : ages[j] >= Get(ConfigOf(j), "max_lifespan", 99999)
  /\ \E k \in Idx : alive_mask[k]

(* C26: in a scavenging phase, for every cell, the energy credited to the crabs
   standing on it is the conversion factor of the crab times the marine snow
   removed from the cell, however many crabs share the cell, and is at most
   the conversion factor times the snow the cell held. *)
ScavengeCredit(i) == (energies[i][1] - prev.energies[i][1]) \div Pow2(energies[i][2])

CrabsOn(c) == {i \in LiveOf("Crab") : ClipCell(positions[i]) = c}

C26_SnowConserved ==
  pc = "feeding.predation" =>
    \A c \in Cells :
      LET config == manager_fauna_configs.Crab
          credited == SumOf([i \in Idx |-> ScavengeCredit(i)], CrabsOn(c))
      IN  /\ credited = EnergyGain(prev.marine_snow[c] - marine_snow[c],
                                   config.energy_conversion_factor)
          /\ credited <= EnergyGain(prev.marine_snow[c], config.energy_conversion_factor)

(* C27: whenever update_positions moves a predator in chase mode, its target is
   a live agent: a predator whose target was killed in the predation phase of
   the tick, or died earlier, has no target when it moves and does not chase. *)
C27_ChaseLiveTarget ==
  pc = "store.cleanup" =>
    \A i \in Idx :
      draw.mode[i] = "chase" => /\ targets[i] \in Idx
                                /\ alive_mask[targets[i]]

(* C28: after every SimulationManager.update() the position of every live
   agent is inside the lattice, whatever species are alive, also when SmallFish
   are alive and no Zooplankton are. *)
C28_InsideAfterUpdate ==
  pc = "cleanup" => \A i \in Idx : alive_mask[i] => InGrid(positions[i])

(* C29: _resolve_inheritance ends for every graph of inherit_from links, also
   one with a cycle, with a resolved configuration in which the fields of the
   child override those of the parent, or with a KeyError for a missing name:
   after the load, the outcome is the KeyError that load_fauna_config reports,
   or a configuration that holds every field of each species' own definition. *)
C29_ResolvedOrKeyError ==
  pc = "loaded" =>
    /\ loader.outcome.kind = "returned"
    /\ \/ "printed" \in DOMAIN loader.outcome
       \/ \A n \in DOMAIN loader.outcome.value :
            \A f \in DOMAIN loader.raw[n] :
              /\ f \in DOMAIN loader.outcome.value[n]
              /\ loader.outcome.value[n][f] = loader.raw[n][f]

(* C30: every event that starts ends: an event started in an update of the
   environment has the timer event_duration, and in every later update while it
   is active its countdown is pending (timer >= 1); an update with the timer
   above 1 takes one from the timer, starts no other event and leaves the
   nutrients and the disease risk as they are; the update with the timer at 1
   reverts them and ends with no event. *)
C30_EventEnds ==
  [][(pc = "environment.update" /\ tick' = tick + 1) =>
       /\ (current_event = "none" /\ current_event' # "none") =>
            event_timer' = env_config.event_duration
       /\ current_event # "none" =>
            /\ event_timer >= 1
            /\ event_timer > 1 =>
                 /\ event_timer' = event_timer - 1
                 /\ current_event' = current_event
                 /\ nutrient_map' = nutrient_map
                 /\ disease_risk_map' = disease_risk_map
            /\ event_timer = 1 =>
                 /\ nutrient_map' = base_nutrient_map
                 /\ disease_risk_map' = [c \in Cells |-> 10]
                 /\ current_event' = "none"]_vars

====
